---- MODULE Spec2Model ----
EXTENDS Integers, Sequences, FiniteSets, TLC

(***************************************************************************)
(* Model of the search engine of the tech-econ site: the query parser      *)
(* (QueryParser), the global search modal (debounced input, performSearch, *)
(* VectorSearch) and the IndexedDB asset cache (SearchCache).              *)
(*                                                                         *)
(* A JavaScript string is a sequence of one-character strings.             *)
(***************************************************************************)

VARIABLES
    rawQuery,      \* QueryParser: the argument of parse ([str, s])
    parsed,        \* QueryParser: the value parse returned
    pPc,           \* QueryParser: "input", "parsed" or "reparsed"
    reparsed,      \* QueryParser: the value parse returned for parsed.cleanQuery
    fuse,          \* global search: TRUE when initFuse built the Fuse index
    fuseRank,      \* global search: what fuse.search returns for each query
    isOpen,        \* global search: the modal is open
    inputValue,    \* global search: input.value
    timers,        \* the pending setTimeout(performSearch) timers: ms left
    debounceLive,  \* debounceTimer names the newest timer and it is pending
    sinceKey,      \* ms since the last input event, saturating at debounceMs
    pendingKeys,   \* input events since the last search run by the timer
    currentResults,\* global search: currentResults (document ids, in order)
    display,       \* global search: what resultsContainer shows
    isLoaded,      \* VectorSearch.isLoaded
    isLoading,     \* VectorSearch.isLoading
    loadError,     \* VectorSearch.loadError is set
    embeddings,    \* VectorSearch.embeddings (ids of the items), <<>> for null
    lastSearch,    \* history: the last execution of performSearch
    store,         \* SearchCache: the IndexedDB object store, key -> entry
    cacheVersion,  \* SearchCache: CACHE_VERSION of the deployed script
    clock,         \* SearchCache: Date.now(), in ticks
    dbState,       \* SearchCache: "closed", "opening", "ready" (isReady) or "failed"
    cacheResult,   \* what the cache operation of the last step resolved to
    openRequests,  \* SearchCache: indexedDB.open requests issued by this page
    fResults,      \* filters: the search results (documents) given to applyFilters
    fQuery,        \* filters: the parsed query given to the filters
    fPc,           \* filters: "input", "matched" or "applied"
    fMatches,      \* filters: what matchesFilters returned for each result
    fOut,          \* filters: what applyFilters returned
    loadPromise,   \* VectorSearch._loadPromise: "null", "pending", "true", "false"
    fetches,       \* VectorSearch: fetches of the embeddings file in flight
    lastSettle,    \* VectorSearch: how the last fetch of loadEmbeddings ended
    itemsShape,    \* VectorSearch: the shape of data.items kept in embeddings
    loadCall,      \* VectorSearch: what the last call of loadEmbeddings did
    vsOut,         \* VectorSearch: the last call of search or searchByEmbedding
    rateLimitStore,\* submit worker: rateLimitStore, key -> timestamps
    workerNow,     \* submit worker: Date.now(), in ticks
    inFlight,      \* submit worker: the requests being handled, by stage and IP
    accepted,      \* history: the times of the successful submissions of each IP
    lastResponse   \* submit worker: the status of the last response sent

parserVars == <<rawQuery, parsed, pPc, reparsed>>
uiVars == <<fuse, fuseRank, isOpen, inputValue, timers, debounceLive, sinceKey,
            pendingKeys, currentResults, display, isLoaded, isLoading,
            loadError, embeddings, lastSearch>>
cacheVars == <<store, cacheVersion, clock, dbState, cacheResult, openRequests>>
filterVars == <<fResults, fQuery, fPc, fMatches, fOut>>
vectorVars == <<loadPromise, fetches, lastSettle, itemsShape, loadCall, vsOut>>
submitVars == <<rateLimitStore, workerNow, inFlight, accepted, lastResponse>>
vars == <<parserVars, uiVars, cacheVars, filterVars, vectorVars, submitVars>>

\* ------------------------------------------------------------ bounds
MaxPieces == 3
NumDocs == 22      \* documents of the corpus
TickMs == 50       \* the step of the clock
MaxBurst == 2      \* input events between two searches run by the timer
TtlTicks == 1      \* CACHE_TTL (7 days) in ticks of the cache clock
MaxClock == 3      \* the last tick of the cache clock
MaxBumps == 1      \* deployments that raise CACHE_VERSION
MaxResults == 2    \* search results given to applyFilters
MaxFetches == 2    \* fetches of the embeddings file in flight
MaxOpens == 2      \* indexedDB.open requests of one page
HourTicks == 1     \* the hour of the rate limit, in ticks of the worker clock
MaxNow == 1        \* the last tick of the worker clock
MaxInFlight == 6   \* requests the worker handles at the same time

\* ------------------------------------------------------ characters
LowerLetters == <<"a","b","c","d","e","f","g","h","i","j","k","l","m",
                  "n","o","p","q","r","s","t","u","v","w","x","y","z">>
UpperLetters == <<"A","B","C","D","E","F","G","H","I","J","K","L","M",
                  "N","O","P","Q","R","S","T","U","V","W","X","Y","Z">>
Digits == {"0","1","2","3","4","5","6","7","8","9"}

Range(f) == {f[i] : i \in DOMAIN f}

\* the regular expression class \w
IsWord(c) == c \in Range(LowerLetters) \cup Range(UpperLetters) \cup Digits \cup {"_"}

\* the regular expression class \s (the model's strings hold no other blank)
IsSpace(c) == c = " "

\* String.prototype.toLowerCase on one character
LowerChar(c) ==
    IF c \in Range(UpperLetters)
    THEN LowerLetters[CHOOSE i \in DOMAIN UpperLetters : UpperLetters[i] = c]
    ELSE c

ToLower(s) == [i \in 1..Len(s) |-> LowerChar(s[i])]

Min(S) == CHOOSE x \in S : \A y \in S : x <= y

\* String.prototype.trim
RECURSIVE TrimLeft(_)
TrimLeft(s) == IF s # <<>> /\ IsSpace(Head(s)) THEN TrimLeft(Tail(s)) ELSE s

RECURSIVE TrimRight(_)
TrimRight(s) ==
    IF s # <<>> /\ IsSpace(s[Len(s)]) THEN TrimRight(SubSeq(s, 1, Len(s) - 1)) ELSE s

Trim(s) == TrimRight(TrimLeft(s))

\* String.prototype.indexOf, 1-based; 0 when t does not occur in s
IndexOf(s, t) ==
    LET at == {i \in 1..(Len(s) - Len(t) + 1) : SubSeq(s, i, i + Len(t) - 1) = t}
    IN  IF at = {} THEN 0 ELSE Min(at)

\* String.prototype.replace(t, r) with a string pattern: the first occurrence
\* a replace that leaves the string as it is
ReplaceNothing(s, t, r) == s
ReplaceFirst(s, t, r) ==
    LET i == IndexOf(s, t)
    IN  IF i = 0 THEN s
        ELSE SubSeq(s, 1, i - 1) \o r \o SubSeq(s, i + Len(t), Len(s))

\* s.split(/\s+/).filter(nonempty): the maximal runs of non-blank characters
RECURSIVE SplitWS(_)
SplitWS(s) ==
    LET t == TrimLeft(s)
    IN  IF t = <<>> THEN <<>>
        ELSE LET stops == {i \in 1..Len(t) : IsSpace(t[i])}
                 e == IF stops = {} THEN Len(t) + 1 ELSE Min(stops)
             IN  <<SubSeq(t, 1, e - 1)>> \o SplitWS(SubSeq(t, e, Len(t)))

\* Array.prototype.join(' ')
RECURSIVE JoinSp(_)
JoinSp(parts) ==
    IF parts = <<>> THEN <<>>
    ELSE IF Len(parts) = 1 THEN parts[1]
    ELSE parts[1] \o <<" ">> \o JoinSp(Tail(parts))

\* the end of the maximal run of \w characters that starts at i
WordRunEnd(s, i) ==
    CHOOSE j \in i..Len(s) :
        /\ \A k \in i..j : IsWord(s[k])
        /\ (j = Len(s) \/ ~IsWord(s[j + 1]))

\* the end of the maximal run of \S characters that starts at i
NonSpaceRunEnd(s, i) ==
    CHOOSE j \in i..Len(s) :
        /\ \A k \in i..j : ~IsSpace(s[k])
        /\ (j = Len(s) \/ IsSpace(s[j + 1]))

\* ------------------------------------------------------ QueryParser
Str(s) == [str |-> TRUE, s |-> s]
NonString == [str |-> FALSE, s |-> <<>>]

CanonFields == {"author", "year", "topic", "type"}
NoField == "null"

\* normalizeFieldName: the alias table; NoField for a name that is not in it
normalizeFieldName(field) ==
    IF field \in {<<"a","u","t","h","o","r">>, <<"a","u","t","h","o","r","s">>,
                  <<"b","y">>, <<"w","r","i","t","e","r">>} THEN "author"
    ELSE IF field \in {<<"y","e","a","r">>, <<"d","a","t","e">>,
                       <<"p","u","b","l","i","s","h","e","d">>, <<"y","r">>} THEN "year"
    ELSE IF field \in {<<"t","o","p","i","c">>, <<"a","r","e","a">>,
                       <<"f","i","e","l","d">>, <<"d","o","m","a","i","n">>} THEN "topic"
    ELSE IF field \in {<<"t","y","p","e">>, <<"k","i","n","d">>,
                       <<"c","a","t","e","g","o","r","y">>} THEN "type"
    ELSE NoField

EmptyFields == [f \in CanonFields |-> <<>>]

\* an empty structure that holds one blank term
EmptyParsedBlankTerm ==
    [phrases |-> <<>>, fields |-> EmptyFields, negTerms |-> <<>>,
     negPhrases |-> <<>>, terms |-> << <<>> >>, cleanQuery |-> <<>>]
\* the structure parse returns for an empty or non-string argument
EmptyParsed ==
    [phrases |-> <<>>, fields |-> EmptyFields, negTerms |-> <<>>,
     negPhrases |-> <<>>, terms |-> <<>>, cleanQuery |-> <<>>]

\* /(-?)"([^"]+)"/ matches at position i of s
PhraseMatchAt(s, i) ==
    LET q == IF s[i] = "-" THEN i + 1 ELSE i
        closes == {e \in (q + 1)..Len(s) : s[e] = "\""}
    IN  /\ q <= Len(s)
        /\ s[q] = "\""
        /\ closes # {}
        /\ Min(closes) >= q + 2

\* phraseRegex.exec(s) with lastIndex = last: the leftmost match at or after it
PhraseExec(s, last) ==
    LET cands == {i \in (last + 1)..Len(s) : PhraseMatchAt(s, i)}
    IN  IF cands = {} THEN [found |-> FALSE]
        ELSE LET i == Min(cands)
                 q == IF s[i] = "-" THEN i + 1 ELSE i
                 e == Min({k \in (q + 1)..Len(s) : s[k] = "\""})
             IN  [found |-> TRUE, neg |-> (q # i), text |-> SubSeq(s, i, e),
                  inner |-> SubSeq(s, q + 1, e - 1), last |-> e]

\* step 1 of parse: the while loop over phraseRegex.exec(query)
RECURSIVE PhraseLoop(_, _, _)
PhraseLoop(query, last, acc) ==
    LET m == PhraseExec(query, last)
    IN  IF ~m.found THEN acc
        ELSE LET phrase == Trim(m.inner)
                 rem == ReplaceFirst(acc.remaining, m.text, <<" ">>)
             IN  PhraseLoop(query, m.last,
                    [remaining |-> rem,
                     phrases |-> IF phrase # <<>> /\ ~m.neg
                                 THEN Append(acc.phrases, ToLower(phrase))
                                 ELSE acc.phrases,
                     negPhrases |-> IF phrase # <<>> /\ m.neg
                                    THEN Append(acc.negPhrases, ToLower(phrase))
                                    ELSE acc.negPhrases])

\* /(\w+):(\S+)/ matches at position i of s
FieldMatchAt(s, i) ==
    /\ IsWord(s[i])
    /\ LET j == WordRunEnd(s, i)
       IN  j + 2 <= Len(s) /\ s[j + 1] = ":" /\ ~IsSpace(s[j + 2])

\* fieldRegex.exec(s) with lastIndex = last
FieldExec(s, last) ==
    LET cands == {i \in (last + 1)..Len(s) : FieldMatchAt(s, i)}
    IN  IF cands = {} THEN [found |-> FALSE]
        ELSE LET i == Min(cands)
                 j == WordRunEnd(s, i)
                 e == NonSpaceRunEnd(s, j + 2)
             IN  [found |-> TRUE, text |-> SubSeq(s, i, e),
                  field |-> SubSeq(s, i, j), value |-> SubSeq(s, j + 2, e),
                  last |-> e]

\* step 2 of parse: the while loop over fieldRegex.exec(remaining); the regex
\* keeps its lastIndex while remaining is replaced by a shorter string
RECURSIVE FieldLoop(_, _, _)
FieldLoop(remaining, last, fields) ==
    LET m == FieldExec(remaining, last)
    IN  IF ~m.found THEN [remaining |-> remaining, fields |-> fields]
        ELSE LET normalizedField == normalizeFieldName(ToLower(m.field))
                 value == Trim(m.value)
             IN  FieldLoop(ReplaceFirst(remaining, m.text, <<" ">>), m.last,
                    IF normalizedField # NoField /\ value # <<>>
                    THEN [fields EXCEPT ![normalizedField] = Append(@, value)]
                    ELSE fields)

\* /-(\w+)/ matches at position i of s
NegationMatchAt(s, i) == s[i] = "-" /\ i + 1 <= Len(s) /\ IsWord(s[i + 1])

\* negationRegex.exec(s) with lastIndex = last
NegationExec(s, last) ==
    LET cands == {i \in (last + 1)..Len(s) : NegationMatchAt(s, i)}
    IN  IF cands = {} THEN [found |-> FALSE]
        ELSE LET i == Min(cands)
                 e == WordRunEnd(s, i + 1)
             IN  [found |-> TRUE, text |-> SubSeq(s, i, e),
                  word |-> SubSeq(s, i + 1, e), last |-> e]

\* step 3 of parse: the while loop over negationRegex.exec(remaining)
RECURSIVE NegationLoop(_, _, _)
NegationLoop(remaining, last, negTerms) ==
    LET m == NegationExec(remaining, last)
    IN  IF ~m.found THEN [remaining |-> remaining, negTerms |-> negTerms]
        ELSE LET term == ToLower(Trim(m.word))
             IN  NegationLoop(ReplaceFirst(remaining, m.text, <<" ">>), m.last,
                    IF term # <<>> /\ Len(term) > 1
                    THEN Append(negTerms, term) ELSE negTerms)

\* QueryParser.parse
Parse(raw) ==
    IF ~raw.str \/ raw.s = <<>> THEN EmptyParsed
    ELSE LET query == Trim(raw.s)
             p1 == PhraseLoop(query, 0,
                      [remaining |-> query, phrases |-> <<>>, negPhrases |-> <<>>])
             p2 == FieldLoop(p1.remaining, 0, EmptyFields)
             p3 == NegationLoop(p2.remaining, 0, <<>>)
             terms == [i \in 1..Len(SplitWS(Trim(p3.remaining))) |->
                          ToLower(SplitWS(Trim(p3.remaining))[i])]
         IN  [phrases |-> p1.phrases, fields |-> p2.fields,
              negTerms |-> p3.negTerms, negPhrases |-> p1.negPhrases,
              terms |-> terms, cleanQuery |-> JoinSp(terms \o p1.phrases)]


\* ------------------------------------------------ QueryParser.matchesFilters
\* a test that looks for the words of t one by one
ContainsWords(text, t) ==
    \A w \in 1..Len(SplitWS(t)) : IndexOf(text, SplitWS(t)[w]) # 0

\* a text field that is absent (undefined) is the empty string: x || ''
Contains(text, t) == IndexOf(text, t) # 0 \/ t = <<>>

\* the searchable text without toLowerCase
SearchTextAsIs(doc) ==
    doc.name \o <<" ">> \o doc.description \o <<" ">> \o doc.tags
            \o <<" ">> \o doc.authors

SearchText(doc) ==
    ToLower(doc.name \o <<" ">> \o doc.description \o <<" ">> \o doc.tags
            \o <<" ">> \o doc.authors)

\* the field check with every value required to match
FieldMatchesEveryValue(doc, field, values) ==
    LET every(P(_)) == \A i \in 1..Len(values) : P(values[i])
        authors == ToLower(IF doc.authors # <<>> THEN doc.authors ELSE doc.tags)
        topic == ToLower(IF doc.topic # <<>> THEN doc.topic ELSE doc.category)
        hasAuthor(v) == Contains(authors, ToLower(v))
        hasYear(v) == doc.year = v
        hasTopic(v) == Contains(topic, ToLower(v))
        hasType(v) == doc.type = ToLower(v)
    IN  CASE field = "author" -> every(hasAuthor)
          [] field = "year"   -> doc.year # <<>> /\ every(hasYear)
          [] field = "topic"  -> every(hasTopic)
          [] field = "type"   -> every(hasType)

\* the check of one field filter (the body of the for-in loop)
FieldMatches(doc, field, values) ==
    LET some(P(_)) == \E i \in 1..Len(values) : P(values[i])
        authors == ToLower(IF doc.authors # <<>> THEN doc.authors ELSE doc.tags)
        topic == ToLower(IF doc.topic # <<>> THEN doc.topic ELSE doc.category)
        hasAuthor(v) == Contains(authors, ToLower(v))
        hasYear(v) == doc.year = v
        hasTopic(v) == Contains(topic, ToLower(v))
        hasType(v) == doc.type = ToLower(v)
    IN  CASE field = "author" -> some(hasAuthor)
          [] field = "year"   -> doc.year # <<>> /\ some(hasYear)
          [] field = "topic"  -> some(hasTopic)
          [] field = "type"   -> some(hasType)

\* a matchesFilters that rejects every document without a year
matchesFiltersNeedsYear(doc, parsedQuery) ==
    /\ doc.year # <<>>
    /\ \A f \in CanonFields :
          parsedQuery.fields[f] # <<>> => FieldMatches(doc, f, parsedQuery.fields[f])
    /\ \A i \in 1..Len(parsedQuery.phrases) :
          Contains(SearchText(doc), parsedQuery.phrases[i])
    /\ \A j \in 1..Len(parsedQuery.negTerms) :
          ~Contains(SearchText(doc), parsedQuery.negTerms[j])
    /\ \A k \in 1..Len(parsedQuery.negPhrases) :
          ~Contains(SearchText(doc), parsedQuery.negPhrases[k])

\* QueryParser.matchesFilters
matchesFilters(doc, parsedQuery) ==
    /\ \A f \in CanonFields :
          parsedQuery.fields[f] # <<>> => FieldMatches(doc, f, parsedQuery.fields[f])
    /\ \A i \in 1..Len(parsedQuery.phrases) :
          Contains(SearchText(doc), parsedQuery.phrases[i])
    /\ \A j \in 1..Len(parsedQuery.negTerms) :
          ~Contains(SearchText(doc), parsedQuery.negTerms[j])
    /\ \A k \in 1..Len(parsedQuery.negPhrases) :
          ~Contains(SearchText(doc), parsedQuery.negPhrases[k])

\* QueryParser.applyFilters
applyFilters(results, parsedQuery) ==
    IF /\ parsedQuery.phrases = <<>>
       /\ parsedQuery.fields = EmptyFields
       /\ parsedQuery.negTerms = <<>>
       /\ parsedQuery.negPhrases = <<>>
    THEN results
    ELSE LET keep(r) == matchesFilters(r, parsedQuery) IN SelectSeq(results, keep)


\* ----------------------------------------- the queries given to parse
\* The pieces a query is typed from; a query is one to MaxPieces pieces
\* separated by single blanks.
Pieces ==
    { <<"b","y",":","x">>,        \* by:x   an author filter
      <<"Y","r",":","1">>,        \* Yr:1   a year filter, upper case alias
      <<"-","A","b">>,            \* -Ab    a negated term
      <<"-","c">>,                \* -c     a single-letter negation
      <<"C","a">>,                \* Ca     a free term
      <<"z","z",":","q">>,        \* zz:q   a prefix that is no alias
      <<"\"">>,                   \* "      a quote
      <<"-","\"">>,               \* -"     the start of a negated phrase
      <<"-">>,                    \* -      a bare dash
      <<":">>,                    \* :      a bare colon
      <<"\"","b","y",":","x","\"">>,      \* "by:x"   a phrase with a filter in it
      <<"-","\"","-","A","b","\"">> }     \* -"-Ab"   a negated phrase with a negation in it

RECURSIVE PieceSeqs(_)
PieceSeqs(n) ==
    IF n = 0 THEN {<<>>}
    ELSE LET shorter == PieceSeqs(n - 1)
         IN  shorter \cup {Append(q, p) : q \in {r \in shorter : Len(r) = n - 1}, p \in Pieces}

QueryStrings == {JoinSp(q) : q \in PieceSeqs(MaxPieces)}

ParserInputs == {Str(s) : s \in QueryStrings} \cup {NonString}

\* ------------------------------------------------ the corpus
DebounceMs == 150          \* CONFIG.debounceMs
MaxTotalResults == 20      \* CONFIG.maxTotalResults
LexicalTop == 5            \* getQueryEmbedding: the lexical hits averaged
FallbackTop == 10          \* getQueryEmbedding: embeddings.slice(0, 10)
DefaultTopK == 20          \* searchByEmbedding, search: topK || 20

DocIds == 1..NumDocs

\* searchIndex: the documents parsed from the page's search data.  Document 2
\* has a description, the odd documents are of year 1 and the even ones of
\* year 2, document 4 has no year.
Doc(i) ==
    [id |-> i,
     name |-> <<"c", "a", LowerLetters[((i - 1) % 26) + 1]>>,
     description |-> IF i = 2 THEN <<"a", "b">> ELSE <<>>,
     tags |-> IF i = 1 THEN <<"x">> ELSE <<>>,
     authors |-> <<>>,
     year |-> IF i = 4 THEN <<>> ELSE IF i % 2 = 1 THEN <<"1">> ELSE <<"2">>,
     topic |-> <<>>,
     category |-> <<"q">>,
     type |-> <<"p">>]

\* the items of /embeddings/search-embeddings.json: every document but
\* document 3 has an embedding
HasEmbedding(i) == i # 3

EmbeddingItems == SelectSeq([i \in 1..NumDocs |-> i], HasEmbedding)

\* item.embedding (integer coordinates stand for the floats of the file)
Embedding(i) == <<(i % 3) - 1, (i % 4) - 1>>

\* the values an input event can leave in input.value
InputValues ==
    { <<" ", "c">>,
      <<"c", "a">>,
      <<"Y", "r", ":", "1", " ", "c", "a">> }

\* CONFIG.suggestions
Suggestions == << <<"c", "a">> >>

\* the queries performSearch can pass to the matchers
SearchableQueries ==
    {Trim(v) : v \in {w \in InputValues : Len(Trim(w)) >= 2}} \cup Range(Suggestions)

\* What fuse.search can return: Fuse.js is not part of the repository, its
\* result for a query is an input, a ranking of documents of the index.
Rankings ==
    { <<>>, <<4, 3, 2, 1>>, [i \in 1..NumDocs |-> i] }

Take(seq, n) == SubSeq(seq, 1, IF Len(seq) < n THEN Len(seq) ELSE n)

\* fuse.search(query)
FuseSearch(query) == IF query \in DOMAIN fuseRank THEN fuseRank[query] ELSE <<>>

\* ------------------------------------------------ VectorSearch
NullEmbedding == <<>>

\* VectorSearch.cosineSimilarity
cosineSimilarity(a, b) ==
    LET len == IF Len(a) < Len(b) THEN Len(a) ELSE Len(b)
        dot[i \in 0..len] == IF i = 0 THEN 0 ELSE dot[i - 1] + a[i] * b[i]
    IN  dot[len]

\* VectorSearch._getAverageEmbedding.  The code divides the sum by the number
\* of items and by its norm: both are positive factors, which leave the
\* order of the similarities unchanged; the model keeps the sum.
getAverageEmbedding(items) ==
    IF items = <<>> THEN NullEmbedding
    ELSE LET dim == Len(Embedding(items[1]))
             sum[n \in 0..Len(items)] ==
                 IF n = 0 THEN [d \in 1..dim |-> 0]
                 ELSE [d \in 1..dim |-> sum[n - 1][d] + Embedding(items[n])[d]]
         IN  sum[Len(items)]

\* self.embeddings.find(e => e.name === name): 0 when there is none
FindByName(name) ==
    LET at == {k \in 1..Len(embeddings) : Doc(embeddings[k]).name = name}
    IN  IF at = {} THEN 0 ELSE embeddings[Min(at)]

\* a getQueryEmbedding that averages every lexical hit
getQueryEmbeddingAllHits(query) ==
    IF ~isLoaded \/ ~fuse THEN NullEmbedding
    ELSE LET fuseResults == FuseSearch(query)
             found == [k \in 1..Len(fuseResults) |-> FindByName(Doc(fuseResults[k]).name)]
             isFound(x) == x # 0
             matchedItems == SelectSeq(found, isFound)
         IN  IF fuseResults = <<>> \/ matchedItems = <<>>
             THEN getAverageEmbedding(Take(embeddings, FallbackTop))
             ELSE getAverageEmbedding(matchedItems)
\* VectorSearch.getQueryEmbedding
getQueryEmbedding(query) ==
    IF ~isLoaded \/ ~fuse THEN NullEmbedding
    ELSE LET fuseResults == FuseSearch(query)
             topMatches == Take(fuseResults, LexicalTop)
             found == [k \in 1..Len(topMatches) |-> FindByName(Doc(topMatches[k]).name)]
             isFound(x) == x # 0
             matchedItems == SelectSeq(found, isFound)
         IN  IF fuseResults = <<>> \/ matchedItems = <<>>
             THEN getAverageEmbedding(Take(embeddings, FallbackTop))
             ELSE getAverageEmbedding(matchedItems)

\* an insertion that puts an item before the items of equal score
RECURSIVE InsertDescTiesFirst(_, _)
InsertDescTiesFirst(sorted, x) ==
    IF sorted = <<>> THEN <<x>>
    ELSE IF Head(sorted).score > x.score
         THEN <<Head(sorted)>> \o InsertDescTiesFirst(Tail(sorted), x)
         ELSE <<x>> \o sorted
\* Array.prototype.sort((a, b) => b.score - a.score): stable, descending
RECURSIVE InsertDesc(_, _)
InsertDesc(sorted, x) ==
    IF sorted = <<>> THEN <<x>>
    ELSE IF Head(sorted).score >= x.score
         THEN <<Head(sorted)>> \o InsertDesc(Tail(sorted), x)
         ELSE <<x>> \o sorted

RECURSIVE SortDesc(_)
SortDesc(scored) ==
    IF scored = <<>> THEN <<>>
    ELSE InsertDesc(SortDesc(SubSeq(scored, 1, Len(scored) - 1)), scored[Len(scored)])

\* topK = topK || 20: an omitted topK, or 0, stands for the default
TopKOrDefault(topK) == IF topK = 0 THEN DefaultTopK ELSE topK

\* VectorSearch.searchByEmbedding
searchByEmbedding(queryEmbedding, topK) ==
    IF ~isLoaded THEN <<>>
    ELSE LET scored == [k \in 1..Len(embeddings) |->
                           [item |-> embeddings[k],
                            score |-> cosineSimilarity(queryEmbedding,
                                                       Embedding(embeddings[k]))]]
         IN  Take(SortDesc(scored), TopKOrDefault(topK))

\* a search that returns the lexical ranking whatever is loaded
VectorSearchSearchLexical(query, topK) ==
    IF fuse THEN Take(FuseSearch(query), TopKOrDefault(topK)) ELSE <<>>
\* VectorSearch.search: the ids of the items returned, in order
VectorSearchSearch(query, topK) ==
    LET k == TopKOrDefault(topK)
    IN  IF ~isLoaded THEN (IF fuse THEN Take(FuseSearch(query), k) ELSE <<>>)
        ELSE LET queryEmbedding == getQueryEmbedding(query)
             IN  IF queryEmbedding = NullEmbedding
                 THEN (IF fuse THEN Take(FuseSearch(query), k) ELSE <<>>)
                 ELSE LET vectorResults == searchByEmbedding(queryEmbedding, k * 2)
                      IN  [n \in 1..Len(Take(vectorResults, k)) |-> vectorResults[n].item]

\* The shapes data.items of a payload that parses as JSON can have: a list
\* whose items all have an embedding vector, no items property at all, or a
\* list with an item that has no embedding vector.
ItemsShapes == {"list", "undefined", "noVector"}

\* the lists of items a well-formed embeddings file can hold
ItemLists == {<<>>, <<2, 1, 4>>, EmbeddingItems}

\* How a fetch of /embeddings/search-embeddings.json can end: with a payload
\* that parses as JSON, or with a network error, a response that is not ok,
\* a body that is no JSON, or the JSON value null.
Payloads ==
    {[kind |-> "json", shape |-> "list", items |-> l] : l \in ItemLists}
    \cup {[kind |-> "json", shape |-> "undefined", items |-> <<>>],
          [kind |-> "json", shape |-> "noVector", items |-> <<2, 1, 4>>]}
    \cup {[kind |-> k, shape |-> "list", items |-> <<>>] :
             k \in {"networkError", "notOk", "badJson", "nullJson"}}

\* Whether the two then-callbacks run to their end: the first throws for a
\* response that is not ok, response.json() rejects for a body that is no
\* JSON, and data.items throws for the value null.
ThenSucceeds(p) == p.kind = "json"

\* a loadEmbeddings without the early return of a load in progress
StartsFetchUnlessLoaded(loaded, loading) == ~loaded
\* loadEmbeddings starts a fetch unless the two early returns are taken
StartsFetch(loaded, loading) == ~loaded /\ ~loading

\* a catch callback that throws the error again
AfterCatchRethrows(err) == [isLoading |-> TRUE, loadError |-> TRUE, promise |-> "rejected"]
\* the catch callback: what it leaves in isLoading and loadError, and what
\* the promise of the load resolves to
AfterCatch(err) == [isLoading |-> FALSE, loadError |-> TRUE, promise |-> "false"]

NoCall == [op |-> "none", query |-> <<>>, vec |-> <<>>, topK |-> 0, loaded |-> FALSE,
           kind |-> "none", queryEmbedding |-> <<>>, items |-> <<>>, scores |-> <<>>]

\* VectorSearch.search as its caller sees it.  On a loaded matcher with a
\* lexical index getQueryEmbedding reads this.embeddings.slice or .find, a
\* TypeError when embeddings is undefined; item.embedding.length and
\* b.length are TypeErrors for an item without a vector.
SearchOutcome(query, topK) ==
    IF isLoaded /\ fuse /\ itemsShape # "list"
    THEN [NoCall EXCEPT !.op = "search", !.query = query, !.topK = topK,
                        !.loaded = isLoaded,
                        !.kind = "throws"]
    ELSE [NoCall EXCEPT !.op = "search", !.query = query, !.topK = topK,
                        !.loaded = isLoaded,
                        !.kind = "returns",
                        !.queryEmbedding = getQueryEmbedding(query),
                        !.items = VectorSearchSearch(query, topK)]

\* VectorSearch.searchByEmbedding as its caller sees it: [] when embeddings
\* is undefined (!this.embeddings), a TypeError in cosineSimilarity for an
\* item without a vector
SearchByEmbeddingOutcome(vec, topK) ==
    IF isLoaded /\ itemsShape = "noVector"
    THEN [NoCall EXCEPT !.op = "searchByEmbedding", !.vec = vec, !.topK = topK,
                        !.loaded = isLoaded,
                        !.kind = "throws"]
    ELSE LET r == IF itemsShape = "undefined" THEN <<>>
                  ELSE searchByEmbedding(vec, topK)
         IN  [NoCall EXCEPT !.op = "searchByEmbedding", !.vec = vec, !.topK = topK,
                        !.loaded = isLoaded,
                            !.kind = "returns",
                            !.items = [n \in 1..Len(r) |-> r[n].item],
                            !.scores = [n \in 1..Len(r) |-> r[n].score]]

NoLoadCall ==
    [returned |-> "none", startedFetch |-> FALSE, wasLoaded |-> FALSE, wasLoading |-> FALSE]

\* VectorSearch is not in use (the other specifications)
VectorQuiet ==
    /\ loadPromise = "null"
    /\ fetches = 0
    /\ lastSettle = "none"
    /\ itemsShape = "list"
    /\ loadCall = NoLoadCall
    /\ vsOut = NoCall

\* ------------------------------------------------ SearchCache
CACHE_VERSION == 3

\* SearchCache.KEYS (MODEL_LOADED, which no operation of the module names,
\* is left out)
KEYS ==
    [EMBEDDINGS |-> "embeddings-v2",
     EMBEDDINGS_METADATA |-> "embeddings-metadata-v2",
     SEARCH_INDEX |-> "search-index-v1"]

CacheKeys == {KEYS.EMBEDDINGS, KEYS.EMBEDDINGS_METADATA, KEYS.SEARCH_INDEX}

\* what the object store holds under a key: nothing (store.get gives
\* undefined, get() null), a value stored as it is, or a wrapWithMeta wrapper
Absent == [kind |-> "absent"]

Plain(v) == [kind |-> "plain", value |-> v]

\* SearchCache.wrapWithMeta
wrapWithMeta(value) ==
    [kind |-> "wrapped", value |-> value, version |-> cacheVersion, timestamp |-> clock]

\* SearchCache.isExpired, CACHE_TTL being TtlTicks ticks
isExpired(cachedItem) ==
    IF cachedItem.kind # "wrapped" THEN TRUE
    ELSE IF cachedItem.timestamp = 0 THEN TRUE
    ELSE clock - cachedItem.timestamp > TtlTicks

\* SearchCache.isValidVersion
isValidVersion(cachedItem) ==
    IF cachedItem.kind # "wrapped" THEN FALSE
    ELSE cachedItem.version = cacheVersion

\* a call of setEmbeddings without a buffer
NoBuffer == 0

\* a call of setEmbeddings whose metadata is null or undefined
NoMetadata == [null |-> TRUE]

\* the arguments of the calls of setEmbeddings: the embeddings built from
\* content 1, those built from content 2, and a call that passes neither
\* metadata nor buffer
SetEmbeddingsCalls ==
    {[metadata |-> [contentHash |-> 1], buffer |-> 1, quantized |-> TRUE],
     [metadata |-> [contentHash |-> 2], buffer |-> 2, quantized |-> TRUE],
     [metadata |-> NoMetadata, buffer |-> NoBuffer, quantized |-> FALSE]}

\* the contentHash arguments of getEmbeddings; NoHash is a call without one
NoHash == 0
ContentHashes == {NoHash, 1, 2}

\* the values callers store with set and setSearchIndex: an object (a search
\* index), and a value that is falsy in JavaScript (false, 0, '')
PlainValues == {[js |-> "object"], [js |-> "falsy"]}

\* x || null
OrNull(entry) ==
    IF entry.kind = "plain" /\ entry.value.js = "falsy" THEN Absent ELSE entry

NoResult ==
    [op |-> "none", key |-> "", ok |-> FALSE, value |-> Absent, metadata |-> Absent,
     embeddings |-> Absent, reason |-> "", deleted |-> <<>>,
     contentHash |-> NoHash, requestError |-> FALSE]

\* the outcome of an operation
Result(op, key, ok, value, reason) ==
    [op |-> op, key |-> key, ok |-> ok, value |-> value, metadata |-> Absent,
     embeddings |-> Absent, reason |-> reason, deleted |-> <<>>,
     contentHash |-> NoHash, requestError |-> FALSE]

\* what get(key) resolves to: request.result || null, and null when the
\* database is not ready or the request errors
ReadEntry(key, requestOk) ==
    IF dbState = "ready" /\ requestOk THEN OrNull(store[key]) ELSE Absent

\* the store after put(value, key) of set(): unchanged when the database is
\* not ready or the request errors
PutEntry(st, key, value, requestOk) ==
    IF dbState = "ready" /\ requestOk THEN [st EXCEPT ![key] = value] ELSE st

\* the store after store.delete(key) of delete()
DeleteEntry(st, key, requestOk) ==
    IF dbState = "ready" /\ requestOk THEN [st EXCEPT ![key] = Absent] ELSE st

\* the verdict of the callback of getEmbeddings on the two entries read;
\* "throws": metadata.contentHash is read of a metadata that is null, the
\* TypeError rejects the promise getEmbeddings returned
EmbeddingsVerdict(contentHash, metadataWrapper, embeddingsWrapper) ==
    IF metadataWrapper = Absent \/ embeddingsWrapper = Absent THEN "absent"
    ELSE IF ~isValidVersion(metadataWrapper) \/ isExpired(metadataWrapper) THEN "stale"
    ELSE IF contentHash # NoHash /\ metadataWrapper.value = NoMetadata THEN "throws"
    ELSE IF contentHash # NoHash /\ metadataWrapper.value.contentHash # contentHash
    THEN "hash"
    ELSE IF embeddingsWrapper.kind # "wrapped" THEN "nobuffer"
    ELSE IF embeddingsWrapper.value.buffer = NoBuffer THEN "nobuffer"
    ELSE "hit"

\* the keys the callback of getEmbeddings calls delete() for, in order
EmbeddingsDeletes(verdict) ==
    IF verdict = "stale" THEN <<KEYS.EMBEDDINGS_METADATA, KEYS.EMBEDDINGS>> ELSE <<>>

\* the object getEmbeddings resolves to
EmbeddingsValue(verdict, metadataWrapper, embeddingsWrapper) ==
    IF verdict = "hit"
    THEN [metadata |-> metadataWrapper.value,
          embeddings |-> embeddingsWrapper.value.buffer,
          quantized |-> embeddingsWrapper.value.quantized]
    ELSE Absent

\* a init() that opens the database again whenever it is not ready
IssuesOpenUnlessReady(state) == state # "ready"

\* init() goes on to open the database: isReady is false and _initPromise
\* is not set
IssuesOpen(state) == state = "closed"
\* the cache is not in use (the other specifications)
CacheQuiet ==
    /\ store = [k \in CacheKeys |-> Absent]
    /\ cacheVersion = CACHE_VERSION
    /\ clock = 1
    /\ dbState = "closed"
    /\ cacheResult = NoResult
    /\ openRequests = 0

\* ------------------------------------------------ the global search modal
NoSearch ==
    [via |-> "none", input |-> <<>>, elapsed |-> 0, coalesced |-> 0,
     loaded |-> FALSE, loading |-> FALSE, outcome |-> "none"]

\* a clearTimeout that cancels nothing
ClearTimeoutNoop(ts) == ts

\* clearTimeout(debounceTimer)
ClearTimeout(ts) == IF debounceLive THEN SubSeq(ts, 1, Len(ts) - 1) ELSE ts

\* a timer runs its callback no earlier than its delay
TimerDue(left) == left = 0

\* no cut to the result limit
SliceResultsAll(results) == results

\* results.slice(0, CONFIG.maxTotalResults)
SliceResults(results) == Take(results, MaxTotalResults)

\* the branch of performSearch between VectorSearch.search and fuse.search
MatcherResults(query) ==
    IF isLoaded THEN VectorSearchSearch(query, MaxTotalResults) ELSE FuseSearch(query)

\* a performSearch that keeps the results it already has
DeliveredResultsFirstWins(query) ==
    IF currentResults # <<>> THEN currentResults ELSE SliceResults(MatcherResults(query))

\* what performSearch stores in currentResults
DeliveredResults(query) == SliceResults(MatcherResults(query))

\* performSearch, run by `via` with input.value = value.  (The recent
\* searches of localStorage and flatResults and selectedIndex, the keyboard
\* selection of the rendered list, are not part of the model.)
PerformSearch(via, value) ==
    LET query == Trim(value)
        record(outcome) ==
            [via |-> via, input |-> value,
             elapsed |-> IF via = "timer" THEN sinceKey ELSE 0,
             coalesced |-> IF via = "timer" THEN pendingKeys ELSE 0,
             loaded |-> isLoaded,
             loading |-> isLoading, outcome |-> outcome]
    IN  IF Len(query) < 2
        THEN /\ display' = "hint"
             /\ currentResults' = <<>>
             /\ lastSearch' = record("short")
        ELSE IF ~fuse
        THEN /\ UNCHANGED <<display, currentResults>>
             /\ lastSearch' = record("nofuse")
        ELSE /\ currentResults' = DeliveredResults(query)
             /\ display' = IF DeliveredResults(query) = <<>> THEN "empty" ELSE "results"
             /\ lastSearch' = record("done")

\* ------------------------------------------------ the submission worker
MAX_SUBMISSIONS_PER_HOUR == 5      \* RATE_LIMIT.MAX_SUBMISSIONS_PER_HOUR

\* the values of the CF-Connecting-IP header
ClientIPs == { <<"1", "2">>, <<"2", "1">> }

\* String.prototype.charCodeAt for a digit
CharCode(c) ==
    LET digits == <<"0", "1", "2", "3", "4", "5", "6", "7", "8", "9">>
    IN  48 + (CHOOSE d \in 0..9 : digits[d + 1] = c)

\* hash & hash, the value as a 32-bit signed integer: the number itself
\* within that range, which the hashes of the addresses of ClientIPs (two
\* characters, below 31 * 58) never leave
ToInt32(n) == n

\* hashIP: the key of the IP in rateLimitStore (the number that
\* toString(36) writes out)
hashIP(ip) ==
    LET hash[i \in 0..Len(ip)] ==
            IF i = 0 THEN 0
            ELSE ToInt32((ToInt32(hash[i - 1] * 32) - hash[i - 1]) + CharCode(ip[i]))
    IN  hash[Len(ip)]

StoreKeys == {hashIP(ip) : ip \in ClientIPs}

\* timestamps.filter(ts => ts > hourAgo)
RecentOf(timestamps, now) ==
    LET recent(ts) == ts > now - HourTicks IN SelectSeq(timestamps, recent)

\* the loop of isRateLimited over rateLimitStore.entries(): a key without
\* recent timestamps is deleted (no timestamps), the others keep the recent ones
CleanStore(st, now) == [k \in DOMAIN st |-> RecentOf(st[k], now)]

\* isRateLimited(ip), after the loop
isRateLimited(st, ip, now) ==
    Len(RecentOf(st[hashIP(ip)], now)) >= MAX_SUBMISSIONS_PER_HOUR

\* trackSubmission(ip)
trackSubmission(st, ip, now) ==
    [st EXCEPT ![hashIP(ip)] = Append(@, now)]

NoRequests == [ip \in ClientIPs |-> [parsing |-> 0, appending |-> 0]]

InFlightTotal ==
    LET n(ip) == inFlight[ip].parsing + inFlight[ip].appending
    IN  n(<<"1", "2">>) + n(<<"2", "1">>)

NoResponse == 0

\* the worker handles no request (the other specifications)
SubmitQuiet ==
    /\ rateLimitStore = [k \in StoreKeys |-> <<>>]
    /\ workerNow = 0
    /\ inFlight = NoRequests
    /\ accepted = [ip \in ClientIPs |-> <<>>]
    /\ lastResponse = NoResponse
\* the filters are not in use (the other specifications)
FilterQuiet ==
    /\ fResults = <<>>
    /\ fQuery = EmptyParsed
    /\ fPc = "applied"
    /\ fMatches = <<>>
    /\ fOut = <<>>

ParserQuiet ==
    /\ rawQuery = NonString
    /\ parsed = EmptyParsed
    /\ pPc = "parsed"
    /\ reparsed = EmptyParsed

\* the state after init() of the page: loadSearchIndex built the Fuse index
\* and started loadEmbeddings, or found no search data
UIInit ==
    /\ fuse \in BOOLEAN
    /\ fuseRank \in [SearchableQueries -> IF fuse THEN Rankings ELSE {<<>>}]
    /\ isOpen = FALSE
    /\ inputValue = <<>>
    /\ timers = <<>>
    /\ debounceLive = FALSE
    /\ sinceKey = DebounceMs
    /\ pendingKeys = 0
    /\ currentResults = <<>>
    /\ display = "none"
    /\ isLoaded = FALSE
    /\ isLoading \in (IF fuse THEN {TRUE} ELSE BOOLEAN)
    /\ loadError = FALSE
    /\ embeddings = <<>>
    /\ lastSearch = NoSearch
    /\ ParserQuiet
    /\ CacheQuiet
    /\ FilterQuiet
    /\ VectorQuiet
    /\ SubmitQuiet

\* the global search is not in use (the other specifications)
UIQuiet ==
    /\ fuse = FALSE
    /\ fuseRank = [q \in SearchableQueries |-> <<>>]
    /\ isOpen = FALSE
    /\ inputValue = <<>>
    /\ timers = <<>>
    /\ debounceLive = FALSE
    /\ sinceKey = DebounceMs
    /\ pendingKeys = 0
    /\ currentResults = <<>>
    /\ display = "none"
    /\ isLoaded = FALSE
    /\ isLoading = FALSE
    /\ loadError = FALSE
    /\ embeddings = <<>>
    /\ lastSearch = NoSearch

\* openModal
OpenModal ==
    /\ ~isOpen
    /\ isOpen' = TRUE
    /\ inputValue' = <<>>
    /\ display' = "hint"
    /\ UNCHANGED <<vectorVars, submitVars, filterVars, cacheVars, parserVars, fuse, fuseRank, timers, debounceLive, sinceKey, pendingKeys,
                   currentResults, isLoaded, isLoading, loadError,
                   embeddings, lastSearch>>

\* closeModal
CloseModal ==
    /\ isOpen
    /\ isOpen' = FALSE
    /\ UNCHANGED <<vectorVars, submitVars, filterVars, cacheVars, parserVars, fuse, fuseRank, inputValue, timers, debounceLive, sinceKey,
                   pendingKeys, currentResults, display, isLoaded,
                   isLoading, loadError, embeddings, lastSearch>>

\* the input listener: the user changes the text to v
Keystroke(v) ==
    /\ isOpen
    /\ v # inputValue
    /\ pendingKeys < MaxBurst
    /\ inputValue' = v
    /\ timers' = Append(ClearTimeout(timers), DebounceMs)
    /\ debounceLive' = TRUE
    /\ sinceKey' = 0
    /\ pendingKeys' = pendingKeys + 1
    /\ UNCHANGED <<vectorVars, submitVars, filterVars, cacheVars, parserVars, fuse, fuseRank, isOpen, currentResults, display, isLoaded, isLoading, loadError, embeddings, lastSearch>>

\* TickMs pass
Tick ==
    /\ sinceKey < DebounceMs \/ \E k \in 1..Len(timers) : timers[k] > 0
    /\ sinceKey' = IF sinceKey + TickMs > DebounceMs THEN DebounceMs ELSE sinceKey + TickMs
    /\ timers' = [k \in 1..Len(timers) |->
                     IF timers[k] > TickMs THEN timers[k] - TickMs ELSE 0]
    /\ UNCHANGED <<vectorVars, submitVars, filterVars, cacheVars, parserVars, fuse, fuseRank, isOpen, inputValue, debounceLive, pendingKeys,
                   currentResults, display, isLoaded, isLoading,
                   loadError, embeddings, lastSearch>>

\* the browser runs the callback of the k-th pending timer: performSearch
TimerFire(k) ==
    /\ k \in 1..Len(timers)
    /\ TimerDue(timers[k])
    /\ timers' = SubSeq(timers, 1, k - 1) \o SubSeq(timers, k + 1, Len(timers))
    /\ debounceLive' = (debounceLive /\ k # Len(timers))
    /\ pendingKeys' = 0
    /\ PerformSearch("timer", inputValue)
    /\ UNCHANGED <<vectorVars, submitVars, filterVars, cacheVars, parserVars, fuse, fuseRank, isOpen, inputValue, sinceKey, isLoaded,
                   isLoading, loadError, embeddings>>

\* a click on a chip of the hint: a suggestion or a recent search (the
\* recent searches of localStorage can be any query searched before)
ChipClick(q) ==
    /\ isOpen
    /\ display = "hint"
    /\ inputValue' = q
    /\ PerformSearch("chip", q)
    /\ UNCHANGED <<vectorVars, submitVars, filterVars, cacheVars, parserVars, fuse, fuseRank, isOpen, timers, debounceLive, sinceKey,
                   pendingKeys, isLoaded, isLoading, loadError, embeddings>>

\* loadEmbeddings: the fetch and response.json() succeed
LoadSucceeds ==
    /\ isLoading
    /\ embeddings' = EmbeddingItems
    /\ isLoaded' = TRUE
    /\ isLoading' = FALSE
    /\ UNCHANGED <<vectorVars, submitVars, filterVars, cacheVars, parserVars, fuse, fuseRank, isOpen, inputValue, timers, debounceLive,
                   sinceKey, pendingKeys, currentResults, display, loadError, lastSearch>>

\* loadEmbeddings: the fetch fails, the response is not ok, or the body is
\* no JSON
LoadFails ==
    /\ isLoading
    /\ loadError' = TRUE
    /\ isLoading' = FALSE
    /\ UNCHANGED <<vectorVars, submitVars, filterVars, cacheVars, parserVars, fuse, fuseRank, isOpen, inputValue, timers, debounceLive,
                   sinceKey, pendingKeys, currentResults, display, isLoaded, embeddings, lastSearch>>

UINext ==
    \/ OpenModal
    \/ CloseModal
    \/ \E v \in InputValues : Keystroke(v)
    \/ Tick
    \/ \E k \in 1..Len(timers) : TimerFire(k)
    \/ \E q \in SearchableQueries : ChipClick(q)
    \/ LoadSucceeds
    \/ LoadFails

UISpec == UIInit /\ [][UINext]_vars

\* ------------------------------------------ claims on the global search
\* the query of the last execution of performSearch
LastQuery == Trim(lastSearch.input)

\* the documents fuse.search ranks for the last query, cut to the limit
LastLexical == Take(FuseSearch(LastQuery), MaxTotalResults)

\* C3: no document that fails matchesFilters for the parsed query is among
\* the results delivered for that query.
C3_FiltersAreHard ==
    (lastSearch.outcome = "done" /\ display = "results") =>
        \A k \in 1..Len(currentResults) :
            matchesFilters(Doc(currentResults[k]), Parse(Str(lastSearch.input)))

C8_Debounce ==
    /\ Len(timers) <= 1
    /\ (timers # <<>>) = (pendingKeys > 0)
    /\ timers # <<>> => debounceLive /\ timers[1] = DebounceMs - sinceKey
    /\ sinceKey < DebounceMs => pendingKeys > 0
    /\ lastSearch.via = "timer" =>
          /\ lastSearch.elapsed >= DebounceMs
          /\ lastSearch.coalesced >= 1
          /\ (pendingKeys = 0 /\ inputValue # <<>>) => lastSearch.input = inputValue

\* C8 witness: two keystrokes, the second one before the timer of the first
\* ran, then one search by the timer, for the final text, and none pending.
C8_Witness ==
    /\ lastSearch.via = "timer"
    /\ lastSearch.coalesced = 2
    /\ lastSearch.input = <<"c", "a">>
    /\ lastSearch.outcome = "done"
    /\ inputValue = <<"c", "a">>
    /\ timers = <<>>

\* C9: a search run while the vector matcher is not loaded delivers the
\* lexical ranking cut to the result limit, not empty when there is a lexical
\* hit; VectorSearch.search itself returns that ranking while not loaded.
C9_LexicalFallback ==
    /\ (lastSearch.outcome = "done" /\ ~lastSearch.loaded) =>
          /\ currentResults = LastLexical
          /\ FuseSearch(LastQuery) # <<>> => currentResults # <<>>
          /\ (FuseSearch(LastQuery) # <<>> /\ display # "hint") => display = "results"
    /\ ~isLoaded =>
          \A q \in SearchableQueries :
              VectorSearchSearch(q, MaxTotalResults) =
                  IF fuse THEN Take(FuseSearch(q), MaxTotalResults) ELSE <<>>

\* C9 witness: a search run while the embeddings are loading delivered a
\* lexical ranking longer than the limit, cut to the limit.
C9_Witness ==
    /\ lastSearch.outcome = "done"
    /\ lastSearch.loading
    /\ ~lastSearch.loaded
    /\ display = "results"
    /\ Len(FuseSearch(LastQuery)) > MaxTotalResults
    /\ Len(currentResults) = MaxTotalResults

\* C10: a lexical hit (within the result limit) that has no embedding is
\* among the results, also when the vector matcher is loaded.
C10_NoEmbeddingStillRanked ==
    lastSearch.outcome = "done" =>
        \A k \in 1..Len(LastLexical) :
            ~HasEmbedding(LastLexical[k]) => LastLexical[k] \in Range(currentResults)


\* ------------------------------------------------ parser specification
ParserInit ==
    /\ rawQuery \in ParserInputs
    /\ parsed = EmptyParsed
    /\ pPc = "input"
    /\ reparsed = EmptyParsed
    /\ UIQuiet
    /\ CacheQuiet
    /\ FilterQuiet
    /\ VectorQuiet
    /\ SubmitQuiet

\* a call of QueryParser.parse(rawQuery)
ParseCall ==
    /\ pPc = "input"
    /\ parsed' = Parse(rawQuery)
    /\ pPc' = "parsed"
    /\ UNCHANGED <<rawQuery, reparsed, uiVars, cacheVars, filterVars, vectorVars, submitVars>>

\* a call of QueryParser.parse on the clean query of the last result
ReparseCall ==
    /\ pPc = "parsed"
    /\ reparsed' = Parse(Str(parsed.cleanQuery))
    /\ pPc' = "reparsed"
    /\ UNCHANGED <<rawQuery, parsed, uiVars, cacheVars, filterVars, vectorVars, submitVars>>

ParserNext ==
    \/ ParseCall
    \/ ReparseCall

ParserSpec == ParserInit /\ [][ParserNext]_vars


\* ------------------------------------------------ claims on the parser
\* the whitespace-delimited tokens of the raw query
RawTokens(raw) == Range(SplitWS(raw.s))

HasQuote(raw) == \E i \in 1..Len(raw.s) : raw.s[i] = "\""

\* the position of the colon of a token alias:value, 0 for any other token
FieldColon(t) ==
    LET ks == {k \in 2..(Len(t) - 1) :
                  /\ t[k] = ":"
                  /\ \A i \in 1..(k - 1) : IsWord(t[i])
                  /\ normalizeFieldName(ToLower(SubSeq(t, 1, k - 1))) # NoField}
    IN  IF ks = {} THEN 0 ELSE Min(ks)

\* a token -word
IsNegToken(t) == Len(t) >= 2 /\ t[1] = "-" /\ \A i \in 2..Len(t) : IsWord(t[i])

InFuzzyText(t) ==
    \/ ToLower(t) \in Range(parsed.terms)
    \/ ToLower(t) \in Range(SplitWS(parsed.cleanQuery))

\* C1: every token alias:value of a query (without quoted phrases) is
\* recorded under its canonical field with its value, and is part neither
\* of terms nor of cleanQuery.
C1_FieldTokensRecorded ==
    (pPc # "input" /\ rawQuery.str /\ ~HasQuote(rawQuery)) =>
        \A t \in RawTokens(rawQuery) :
            FieldColon(t) # 0 =>
                LET k == FieldColon(t)
                    canon == normalizeFieldName(ToLower(SubSeq(t, 1, k - 1)))
                IN  /\ SubSeq(t, k + 1, Len(t)) \in Range(parsed.fields[canon])
                    /\ ~InFuzzyText(t)

\* C2: every token -word with a word of two or more characters is recorded,
\* case-folded, in negations.terms and is part neither of terms nor of
\* cleanQuery; a single-letter negation is not recorded.
C2_NegationsRecorded ==
    (pPc # "input" /\ rawQuery.str /\ ~HasQuote(rawQuery)) =>
        \A t \in RawTokens(rawQuery) :
            IsNegToken(t) =>
                IF Len(t) > 2
                THEN /\ ToLower(Tail(t)) \in Range(parsed.negTerms)
                     /\ ~InFuzzyText(t)
                ELSE ToLower(Tail(t)) \notin Range(parsed.negTerms)

\* the position of the colon of a token prefix:value whose prefix is a word
\* that is not in the alias table, 0 for any other token
UnknownColon(t) ==
    LET ks == {k \in 2..(Len(t) - 1) :
                  /\ t[k] = ":"
                  /\ \A i \in 1..(k - 1) : IsWord(t[i])
                  /\ normalizeFieldName(ToLower(SubSeq(t, 1, k - 1))) = NoField}
    IN  IF ks = {} THEN 0 ELSE Min(ks)

\* C11: every token prefix:value of a query (without quoted phrases) whose
\* prefix is not in the alias table is, case-folded, one of the free terms
\* and part of cleanQuery.
C11_UnknownPrefixKept ==
    (pPc # "input" /\ rawQuery.str /\ ~HasQuote(rawQuery)) =>
        \A t \in RawTokens(rawQuery) :
            UnknownColon(t) # 0 =>
                /\ ToLower(t) \in Range(parsed.terms)
                /\ ToLower(t) \in Range(SplitWS(parsed.cleanQuery))


\* C18: reparsing a clean query is a fixed point: parse(c) for
\* c = parse(q).cleanQuery has the clean query c again and extracts no
\* phrase, no field filter and no negation from c.
C18_ReparseFixedPoint ==
    pPc = "reparsed" =>
        /\ reparsed.cleanQuery = parsed.cleanQuery
        /\ reparsed.phrases = <<>>
        /\ reparsed.fields = EmptyFields
        /\ reparsed.negTerms = <<>>
        /\ reparsed.negPhrases = <<>>
\* the positions of the quotes of s, and the position of the r-th of them
QuotePositions(s) == {i \in 1..Len(s) : s[i] = "\""}

QuoteAt(s, r) ==
    CHOOSE i \in QuotePositions(s) : Cardinality({j \in QuotePositions(s) : j <= i}) = r

\* the quoted phrases of s: the k-th runs from quote 2k-1 to quote 2k, with
\* the dash before its first quote if there is one
NumQuoted(s) == Cardinality(QuotePositions(s)) \div 2

QuotedInner(s, k) == SubSeq(s, QuoteAt(s, 2 * k - 1) + 1, QuoteAt(s, 2 * k) - 1)

QuotedNegated(s, k) ==
    QuoteAt(s, 2 * k - 1) > 1 /\ s[QuoteAt(s, 2 * k - 1) - 1] = "-"

InQuoted(s, p) ==
    \E k \in 1..NumQuoted(s) :
        \/ QuoteAt(s, 2 * k - 1) <= p /\ p <= QuoteAt(s, 2 * k)
        \/ QuotedNegated(s, k) /\ p = QuoteAt(s, 2 * k - 1) - 1

\* s with the quoted phrases blanked out
OutsideQuotes(s) == [p \in 1..Len(s) |-> IF InQuoted(s, p) THEN " " ELSE s[p]]

\* the phrases (negated or not) the first k quoted phrases of s give
RECURSIVE QuotedPhrases(_, _, _)
QuotedPhrases(s, k, negated) ==
    IF k = 0 THEN <<>>
    ELSE LET phrase == ToLower(Trim(QuotedInner(s, k)))
         IN  IF phrase # <<>> /\ QuotedNegated(s, k) = negated
             THEN Append(QuotedPhrases(s, k - 1, negated), phrase)
             ELSE QuotedPhrases(s, k - 1, negated)

\* C25: quoted phrases are extracted first and their text is not counted
\* again: each quoted phrase gives a phrase or a negated phrase, and every
\* field value, negated term and free term of the result comes from the
\* text outside the quoted phrases, so that a field:value or a -word inside
\* a quoted phrase gives no entry of fields, negations.terms or terms.
C25_PhrasesFirst ==
    (pPc # "input" /\ rawQuery.str /\ NumQuoted(rawQuery.s) > 0) =>
        LET s == rawQuery.s
            outside == OutsideQuotes(s)
        IN  /\ parsed.phrases = QuotedPhrases(s, NumQuoted(s), FALSE)
            /\ parsed.negPhrases = QuotedPhrases(s, NumQuoted(s), TRUE)
            /\ \A f \in CanonFields :
                  \A i \in 1..Len(parsed.fields[f]) :
                      IndexOf(outside, <<":">> \o parsed.fields[f][i]) # 0
            /\ \A i \in 1..Len(parsed.negTerms) :
                  IndexOf(ToLower(outside), <<"-">> \o parsed.negTerms[i]) # 0
            /\ \A i \in 1..Len(parsed.terms) :
                  IndexOf(ToLower(outside), parsed.terms[i]) # 0

\* a year filter outside and an author filter inside a quoted phrase: the
\* phrase and the year are recorded, the author is not
C25_Witness ==
    /\ pPc = "parsed"
    /\ rawQuery.str
    /\ NumQuoted(rawQuery.s) = 1
    /\ parsed.phrases = << <<"b", "y", ":", "x">> >>
    /\ parsed.fields["year"] = << <<"1">> >>
    /\ parsed.fields["author"] = <<>>
    /\ parsed.negTerms = <<>>
    /\ parsed.terms = <<>>
\* the structure has every part, and no part holds anything
IsEmptyStructure(p) ==
    /\ p.terms = <<>>
    /\ p.phrases = <<>>
    /\ \A f \in CanonFields : p.fields[f] = <<>>
    /\ p.negTerms = <<>>
    /\ p.negPhrases = <<>>
    /\ p.cleanQuery = <<>>

\* C19: parse returns a ParsedQuery for every input, strings with unbalanced
\* quotes or bare '-' and ':' included: a structure with all its parts, whose
\* terms, phrases, values and negations are non-empty strings.  For an input
\* that is not a string or is the empty string, terms, phrases, fields,
\* negations and cleanQuery are all empty.
C19_ParseTotal ==
    pPc # "input" =>
        /\ DOMAIN parsed =
              {"phrases", "fields", "negTerms", "negPhrases", "terms", "cleanQuery"}
        /\ DOMAIN parsed.fields = CanonFields
        /\ \A i \in 1..Len(parsed.terms) : parsed.terms[i] # <<>>
        /\ \A i \in 1..Len(parsed.phrases) : parsed.phrases[i] # <<>>
        /\ \A i \in 1..Len(parsed.negTerms) : parsed.negTerms[i] # <<>>
        /\ \A i \in 1..Len(parsed.negPhrases) : parsed.negPhrases[i] # <<>>
        /\ \A f \in CanonFields :
              \A i \in 1..Len(parsed.fields[f]) : parsed.fields[f][i] # <<>>
        /\ (~rawQuery.str \/ rawQuery.s = <<>>) => IsEmptyStructure(parsed)
        /\ pPc = "reparsed" /\ parsed.cleanQuery = <<>> => IsEmptyStructure(reparsed)

\* parse has been called with a value that is not a string, and then with the
\* empty string, the clean query of the first result
C19_Witness ==
    /\ pPc = "reparsed"
    /\ ~rawQuery.str
    /\ IsEmptyStructure(parsed)
    /\ IsEmptyStructure(reparsed)
\* ------------------------------------------------ cache specification
\* the state when the script has been evaluated: no operation was called, the
\* object store of a first visit is empty
CacheInit ==
    /\ store = [k \in CacheKeys |-> Absent]
    /\ cacheVersion = CACHE_VERSION
    /\ clock = 1
    /\ dbState = "closed"
    /\ cacheResult = NoResult
    /\ openRequests = 0
    /\ ParserQuiet
    /\ UIQuiet
    /\ FilterQuiet
    /\ VectorQuiet
    /\ SubmitQuiet

\* init(): the open request of the first operation succeeds
DbOpenSucceeds ==
    /\ dbState = "closed"
    /\ dbState' = "ready"
    /\ openRequests' = openRequests + 1
    /\ cacheResult' = NoResult
    /\ UNCHANGED <<vectorVars, submitVars, filterVars, parserVars, uiVars, store, cacheVersion, clock>>

\* init(): there is no indexedDB (no request is issued then), or the open
\* request fails
DbOpenFails(hasIndexedDB) ==
    /\ dbState = "closed"
    /\ dbState' = "failed"
    /\ openRequests' = IF hasIndexedDB THEN openRequests + 1 ELSE openRequests
    /\ cacheResult' = NoResult
    /\ UNCHANGED <<vectorVars, submitVars, filterVars, parserVars, uiVars, store, cacheVersion, clock>>

\* get(key), and getSearchIndex() for the key of the search index
Get(key, requestOk) ==
    /\ dbState \in {"ready", "failed"}
    /\ cacheResult' = [Result("get", key, ReadEntry(key, requestOk) # Absent,
                              ReadEntry(key, requestOk), "")
                          EXCEPT !.requestError = ~requestOk]
    /\ UNCHANGED <<vectorVars, submitVars, filterVars, parserVars, uiVars, store, cacheVersion, clock, dbState, openRequests>>

\* set(key, value), and setSearchIndex(index) for the key of the search index
Set(key, value, requestOk) ==
    /\ dbState \in {"ready", "failed"}
    /\ store' = PutEntry(store, key, Plain(value), requestOk)
    /\ cacheResult' = Result("set", key, dbState = "ready" /\ requestOk, Plain(value), "")
    /\ UNCHANGED <<vectorVars, submitVars, filterVars, parserVars, uiVars, cacheVersion, clock, dbState, openRequests>>

\* delete(key)
Delete(key, requestOk) ==
    /\ dbState \in {"ready", "failed"}
    /\ store' = DeleteEntry(store, key, requestOk)
    /\ cacheResult' = Result("delete", key, dbState = "ready" /\ requestOk, Absent, "")
    /\ UNCHANGED <<vectorVars, submitVars, filterVars, parserVars, uiVars, cacheVersion, clock, dbState, openRequests>>

\* clear()
Clear(requestOk) ==
    /\ dbState \in {"ready", "failed"}
    /\ store' = IF dbState = "ready" /\ requestOk
                THEN [k \in CacheKeys |-> Absent] ELSE store
    /\ cacheResult' = Result("clear", "", dbState = "ready" /\ requestOk, Absent, "")
    /\ UNCHANGED <<vectorVars, submitVars, filterVars, parserVars, uiVars, cacheVersion, clock, dbState, openRequests>>

\* setEmbeddings(metadata, buffer, quantized): the two sets, each of which
\* can fail, and the promise resolved to results[0] && results[1]
SetEmbeddings(call, metadataOk, embeddingsOk) ==
    /\ dbState \in {"ready", "failed"}
    /\ LET metadataWrapper == wrapWithMeta(call.metadata)
           embeddingsWrapper == wrapWithMeta([buffer |-> call.buffer,
                                              quantized |-> call.quantized])
       IN  /\ store' = PutEntry(PutEntry(store, KEYS.EMBEDDINGS_METADATA, metadataWrapper,
                                         metadataOk),
                                KEYS.EMBEDDINGS, embeddingsWrapper, embeddingsOk)
           /\ cacheResult' =
                 [Result("setEmbeddings", "",
                         dbState = "ready" /\ metadataOk /\ embeddingsOk, Absent, "")
                    EXCEPT !.metadata = metadataWrapper, !.embeddings = embeddingsWrapper]
    /\ UNCHANGED <<vectorVars, submitVars, filterVars, parserVars, uiVars, cacheVersion, clock, dbState, openRequests>>

\* getEmbeddings(contentHash): the two gets, the checks of the callback, and
\* the deletes it starts (del[i]: the i-th delete succeeds)
GetEmbeddings(contentHash, metadataOk, embeddingsOk, del) ==
    /\ dbState \in {"ready", "failed"}
    /\ LET metadataWrapper == ReadEntry(KEYS.EMBEDDINGS_METADATA, metadataOk)
           embeddingsWrapper == ReadEntry(KEYS.EMBEDDINGS, embeddingsOk)
           verdict == EmbeddingsVerdict(contentHash, metadataWrapper, embeddingsWrapper)
           deletes == EmbeddingsDeletes(verdict)
           afterFirst == IF Len(deletes) >= 1
                         THEN DeleteEntry(store, deletes[1], del[1]) ELSE store
           afterBoth == IF Len(deletes) >= 2
                        THEN DeleteEntry(afterFirst, deletes[2], del[2]) ELSE afterFirst
       IN  /\ deletes = <<>> => del = [i \in 1..2 |-> TRUE]   \* no delete: no outcome
           /\ store' = afterBoth
           /\ cacheResult' =
                 [Result("getEmbeddings", "", verdict = "hit",
                         EmbeddingsValue(verdict, metadataWrapper, embeddingsWrapper),
                         verdict)
                    EXCEPT !.metadata = metadataWrapper,
                           !.embeddings = embeddingsWrapper,
                           !.deleted = [i \in 1..Len(deletes) |-> del[i]],
                           !.contentHash = contentHash,
                           !.requestError = ~(metadataOk /\ embeddingsOk)]
    /\ UNCHANGED <<vectorVars, submitVars, filterVars, parserVars, uiVars, cacheVersion, clock, dbState, openRequests>>

\* a tick of the clock passes
Advance ==
    /\ clock < MaxClock
    /\ clock' = clock + 1
    /\ cacheResult' = NoResult
    /\ UNCHANGED <<vectorVars, submitVars, filterVars, parserVars, uiVars, store, cacheVersion, dbState, openRequests>>

\* the page is loaded again with a script of the next CACHE_VERSION: the
\* object store stays, the SearchCache object is new
Deploy ==
    /\ cacheVersion < CACHE_VERSION + MaxBumps
    /\ cacheVersion' = cacheVersion + 1
    /\ dbState' = "closed"
    /\ openRequests' = 0
    /\ cacheResult' = NoResult
    /\ UNCHANGED <<vectorVars, submitVars, filterVars, parserVars, uiVars, store, clock>>

\* init(), as the first statement of get, set, delete and clear: the call
\* of an operation up to the promise init returns.  The first call makes the
\* promise and, where there is an indexedDB, issues the open request.
InitCall(hasIndexedDB) ==
    /\ IF IssuesOpen(dbState)
       THEN /\ openRequests < MaxOpens
            /\ dbState' = IF hasIndexedDB THEN "opening" ELSE "failed"
            /\ openRequests' = IF hasIndexedDB THEN openRequests + 1 ELSE openRequests
       ELSE UNCHANGED <<dbState, openRequests>>
    /\ cacheResult' = NoResult
    /\ UNCHANGED <<vectorVars, submitVars, filterVars, parserVars, uiVars, store,
                   cacheVersion, clock>>

\* request.onsuccess of the open request
OpenSuccess ==
    /\ dbState = "opening"
    /\ dbState' = "ready"
    /\ cacheResult' = NoResult
    /\ UNCHANGED <<vectorVars, submitVars, filterVars, parserVars, uiVars, store,
                   cacheVersion, clock, openRequests>>

\* request.onerror of the open request
OpenError ==
    /\ dbState = "opening"
    /\ dbState' = "failed"
    /\ cacheResult' = NoResult
    /\ UNCHANGED <<vectorVars, submitVars, filterVars, parserVars, uiVars, store,
                   cacheVersion, clock, openRequests>>

\* the page is loaded again: the object store stays, the SearchCache object
\* is new
Reload ==
    /\ dbState # "closed"
    /\ dbState' = "closed"
    /\ openRequests' = 0
    /\ cacheResult' = NoResult
    /\ UNCHANGED <<vectorVars, submitVars, filterVars, parserVars, uiVars, store,
                   cacheVersion, clock>>

\* the operations of one key with the steps of init apart
OpenNext ==
    \/ \E hasIndexedDB \in BOOLEAN : InitCall(hasIndexedDB)
    \/ OpenSuccess
    \/ OpenError
    \/ \E key \in CacheKeys, requestOk \in BOOLEAN : Get(key, requestOk)
    \/ \E key \in CacheKeys, value \in PlainValues, requestOk \in BOOLEAN :
          Set(key, value, requestOk)
    \/ \E key \in CacheKeys, requestOk \in BOOLEAN : Delete(key, requestOk)
    \/ \E requestOk \in BOOLEAN : Clear(requestOk)
    \/ Reload

OpenSpec == CacheInit /\ [][OpenNext]_vars
CacheNext ==
    \/ DbOpenSucceeds
    \/ \E hasIndexedDB \in BOOLEAN : DbOpenFails(hasIndexedDB)
    \/ \E key \in CacheKeys, requestOk \in BOOLEAN : Get(key, requestOk)
    \/ \E key \in CacheKeys, value \in PlainValues, requestOk \in BOOLEAN :
          Set(key, value, requestOk)
    \/ \E key \in CacheKeys, requestOk \in BOOLEAN : Delete(key, requestOk)
    \/ \E requestOk \in BOOLEAN : Clear(requestOk)
    \/ \E call \in SetEmbeddingsCalls, metadataOk \in BOOLEAN, embeddingsOk \in BOOLEAN :
          SetEmbeddings(call, metadataOk, embeddingsOk)
    \/ \E contentHash \in ContentHashes, metadataOk \in BOOLEAN, embeddingsOk \in BOOLEAN,
          del \in [1..2 -> BOOLEAN] :
          GetEmbeddings(contentHash, metadataOk, embeddingsOk, del)
    \/ Advance
    \/ Deploy

CacheSpec == CacheInit /\ [][CacheNext]_vars

\* ------------------------------------------------ claims on the cache
\* an entry of the current CACHE_VERSION that isExpired does not call expired
Fresh(entry) == isValidVersion(entry) /\ ~isExpired(entry)

\* C4: what get(key) returns is an entry of the current CACHE_VERSION that
\* has not expired; any other entry is a miss.
C4_GetValidates ==
    (cacheResult.op = "get" /\ cacheResult.ok) => Fresh(cacheResult.value)

\* C5: when getEmbeddings returns data, the metadata entry and the embeddings
\* entry it read are both of the current CACHE_VERSION and both unexpired.
C5_BothEntriesFresh ==
    (cacheResult.op = "getEmbeddings" /\ cacheResult.ok) =>
        /\ Fresh(cacheResult.metadata)
        /\ Fresh(cacheResult.embeddings)

\* C6: when getEmbeddings has found both entries and judged them invalid, it
\* has returned null and, unless a delete request failed, the store holds
\* neither the metadata entry nor the embeddings entry.
C6_InvalidIsDeleted ==
    (/\ cacheResult.op = "getEmbeddings"
     /\ cacheResult.reason \in {"stale", "hash", "nobuffer"}
     /\ \A i \in 1..Len(cacheResult.deleted) : cacheResult.deleted[i]) =>
        /\ ~cacheResult.ok
        /\ store[KEYS.EMBEDDINGS_METADATA] = Absent
        /\ store[KEYS.EMBEDDINGS] = Absent

\* C12: every cache operation resolves, none rejects; while the database is
\* not available get and getEmbeddings resolve to null and set, delete, clear
\* and setEmbeddings to false.
C12_NeverRejects ==
    /\ cacheResult.reason # "throws"
    /\ (dbState = "failed" /\ cacheResult.op # "none") =>
          /\ ~cacheResult.ok
          /\ cacheResult.op \in {"get", "getEmbeddings"} => cacheResult.value = Absent

\* the store holds, whole, current and younger than the TTL, the pair one
\* call setEmbeddings(metadata, buffer, quantized) wrote
StoredPair ==
    LET m == store[KEYS.EMBEDDINGS_METADATA]
        e == store[KEYS.EMBEDDINGS]
    IN  /\ m.kind = "wrapped" /\ e.kind = "wrapped"
        /\ m.version = cacheVersion /\ e.version = cacheVersion
        /\ m.timestamp = e.timestamp
        /\ clock - m.timestamp < TtlTicks
        /\ \E call \in SetEmbeddingsCalls :
              /\ call.metadata # NoMetadata
              /\ call.buffer # NoBuffer
              /\ m.value = call.metadata
              /\ e.value = [buffer |-> call.buffer, quantized |-> call.quantized]

\* C13: get(k) returns the value set(k, v) stored under k, and getEmbeddings
\* called with the content hash of the stored pair returns the metadata, the
\* buffer and the quantized flag of that pair (the database being open and
\* no request failing).
C13_RoundTrip ==
    /\ (/\ cacheResult.op = "get"
        /\ dbState = "ready" /\ ~cacheResult.requestError
        /\ store[cacheResult.key].kind = "plain") =>
          cacheResult.value = store[cacheResult.key]
    /\ (/\ cacheResult.op = "getEmbeddings"
        /\ dbState = "ready" /\ ~cacheResult.requestError
        /\ StoredPair
        /\ cacheResult.contentHash = store[KEYS.EMBEDDINGS_METADATA].value.contentHash) =>
          /\ cacheResult.ok
          /\ cacheResult.value =
                [metadata |-> store[KEYS.EMBEDDINGS_METADATA].value,
                 embeddings |-> store[KEYS.EMBEDDINGS].value.buffer,
                 quantized |-> store[KEYS.EMBEDDINGS].value.quantized]

\* C14: isExpired reports every stored entry whose age is exactly the TTL as
\* expired, and the metadata entry of the data getEmbeddings returns is
\* younger than the TTL.
C14_ExpiredAtTtl ==
    /\ \A k \in CacheKeys :
          (store[k].kind = "wrapped" /\ clock - store[k].timestamp = TtlTicks) =>
              isExpired(store[k])
    /\ (cacheResult.op = "getEmbeddings" /\ cacheResult.ok) =>
          clock - cacheResult.metadata.timestamp < TtlTicks


\* C26: the metadata and the buffer getEmbeddings returns were written by
\* one call of setEmbeddings: they are the metadata and the buffer of one
\* call, stored at the same time by the same version of the script.
C26_PairFromOneCall ==
    (cacheResult.op = "getEmbeddings" /\ cacheResult.ok) =>
        /\ \E call \in SetEmbeddingsCalls :
              /\ cacheResult.value.metadata = call.metadata
              /\ cacheResult.value.embeddings = call.buffer
        /\ cacheResult.metadata.timestamp = cacheResult.embeddings.timestamp
        /\ cacheResult.metadata.version = cacheResult.embeddings.version
\* ------------------------------------------------ filter specification
\* The documents the filters are applied to.  The first has authors and the
\* words "A b" in its name; the second has tags but no authors, and the
\* words in the other order; the third has the text "AB" in its description
\* and no year; the fourth has the word "a" in its name and "b" in its tags.
FilterDocs ==
    { [id |-> 1, name |-> <<"A", " ", "b">>, description |-> <<>>, tags |-> <<>>,
       authors |-> <<"S", "m">>, year |-> <<"1">>, topic |-> <<>>,
       category |-> <<"Q">>, type |-> <<"p">>],
      [id |-> 2, name |-> <<"b", " ", "a">>, description |-> <<>>, tags |-> <<"s", "m">>,
       authors |-> <<>>, year |-> <<"2">>, topic |-> <<"q">>,
       category |-> <<>>, type |-> <<"p">>],
      [id |-> 3, name |-> <<"c">>, description |-> <<"A", "B">>, tags |-> <<>>,
       authors |-> <<"z", "z">>, year |-> <<>>, topic |-> <<>>,
       category |-> <<>>, type |-> <<"d">>],
      [id |-> 4, name |-> <<"a">>, description |-> <<>>, tags |-> <<"b">>,
       authors |-> <<>>, year |-> <<"1">>, topic |-> <<>>,
       category |-> <<"q">>, type |-> <<"p">> ] }

\* the result lists given to applyFilters: up to MaxResults documents
RECURSIVE ResultLists(_)
ResultLists(n) ==
    IF n = 0 THEN {<<>>}
    ELSE LET shorter == ResultLists(n - 1)
         IN  shorter \cup {Append(l, d) : l \in {r \in shorter : Len(r) = n - 1},
                                         d \in FilterDocs}

\* The parsed queries given to the filters, as parse builds them: the values
\* of a field as typed, phrases and negations in lower case.
FilterQueries ==
    { [phrases |-> ph,
       fields |-> [author |-> au, year |-> yr, topic |-> tp, type |-> ty],
       negTerms |-> nt, negPhrases |-> np, terms |-> <<>>, cleanQuery |-> JoinSp(ph)] :
         au \in {<<>>, << <<"S", "m">> >>, << <<"z", "z">>, <<"S", "m">> >>},
         yr \in {<<>>, << <<"1">> >>, << <<"2">>, <<"1">> >>},
         tp \in {<<>>, << <<"Q">> >>},
         ty \in {<<>>, << <<"P">> >>},
         ph \in {<<>>, << <<"a", " ", "b">> >>},
         nt \in {<<>>, << <<"a", "b">> >>},
         np \in {<<>>, << <<"b", " ", "a">> >>} }

FilterInit ==
    /\ fResults \in ResultLists(MaxResults)
    /\ fQuery \in FilterQueries
    /\ fPc = "input"
    /\ fMatches = <<>>
    /\ fOut = <<>>
    /\ ParserQuiet
    /\ UIQuiet
    /\ CacheQuiet
    /\ VectorQuiet
    /\ SubmitQuiet

\* QueryParser.matchesFilters(result, parsedQuery), called for each result
MatchesFiltersCall ==
    /\ fPc = "input"
    /\ fMatches' = [i \in 1..Len(fResults) |-> matchesFilters(fResults[i], fQuery)]
    /\ fPc' = "matched"
    /\ UNCHANGED <<fResults, fQuery, fOut, parserVars, uiVars, cacheVars,
                   vectorVars, submitVars>>

\* QueryParser.applyFilters(results, parsedQuery)
ApplyFiltersCall ==
    /\ fPc = "matched"
    /\ fOut' = applyFilters(fResults, fQuery)
    /\ fPc' = "applied"
    /\ UNCHANGED <<fResults, fQuery, fMatches, parserVars, uiVars, cacheVars,
                   vectorVars, submitVars>>

FilterNext ==
    \/ MatchesFiltersCall
    \/ ApplyFiltersCall

FilterSpec == FilterInit /\ [][FilterNext]_vars

\* ------------------------------------------------ claims on the filters
\* one value of a field filter matches the document
ValueMatches(doc, f, v) ==
    LET authorsText == IF doc.authors # <<>> THEN doc.authors ELSE doc.tags
        topicText == IF doc.topic # <<>> THEN doc.topic ELSE doc.category
    IN  CASE f = "author" -> IndexOf(ToLower(authorsText), ToLower(v)) # 0
          [] f = "year"   -> doc.year = v
          [] f = "topic"  -> IndexOf(ToLower(topicText), ToLower(v)) # 0
          [] f = "type"   -> doc.type = ToLower(v)

\* the field check: every field present has at least one value that matches
FieldCheck(doc, q, M(_, _, _)) ==
    \A f \in CanonFields :
        q.fields[f] # <<>> => \E i \in 1..Len(q.fields[f]) : M(doc, f, q.fields[f][i])

NoTextFilters(q) == q.phrases = <<>> /\ q.negTerms = <<>> /\ q.negPhrases = <<>>

StrictValueMatches(doc, f, v) ==
    CASE f = "author" -> IndexOf(ToLower(doc.authors), ToLower(v)) # 0
      [] f = "year"   -> doc.year = v
      [] f = "topic"  -> \/ IndexOf(ToLower(doc.topic), ToLower(v)) # 0
                         \/ IndexOf(ToLower(doc.category), ToLower(v)) # 0
      [] f = "type"   -> doc.type = v

DocText(doc) ==
    doc.name \o <<" ">> \o doc.description \o <<" ">> \o doc.tags \o <<" ">> \o doc.authors

\* t occurs in the text of the document, letter case apart
OccursIn(doc, t) ==
    \E k \in 1..Len(DocText(doc)) :
        /\ k + Len(t) - 1 <= Len(DocText(doc))
        /\ \A j \in 1..Len(t) : LowerChar(DocText(doc)[k + j - 1]) = LowerChar(t[j])

Negated(doc, q) ==
    \/ \E j \in 1..Len(q.negTerms) : OccursIn(doc, q.negTerms[j])
    \/ \E k \in 1..Len(q.negPhrases) : OccursIn(doc, q.negPhrases[k])

\* C16: a document whose searchable text contains a negated term or a negated
\* phrase, letter case apart, is rejected by matchesFilters and is not in the
\* list applyFilters returns, whatever the phrases and field filters match.
C16_NegationExcludes ==
    /\ fPc # "input" =>
          \A i \in 1..Len(fResults) : Negated(fResults[i], fQuery) => ~fMatches[i]
    /\ fPc = "applied" =>
          \A i \in 1..Len(fOut) : ~Negated(fOut[i], fQuery)

\* a document that passes the field filters is excluded by a negated term
\* written in another letter case, and the document after it is kept
C16_Witness ==
    /\ fPc = "applied"
    /\ Len(fResults) = 2
    /\ fQuery.negTerms # <<>>
    /\ fQuery.fields["author"] # <<>>
    /\ fQuery.phrases = <<>>
    /\ FieldCheck(fResults[1], fQuery, ValueMatches)
    /\ OccursIn(fResults[1], fQuery.negTerms[1])
    /\ IndexOf(DocText(fResults[1]), fQuery.negTerms[1]) = 0
    /\ fMatches = <<FALSE, TRUE>>
    /\ fOut = <<fResults[2]>>

AllPhrasesOccur(doc, q) == \A p \in 1..Len(q.phrases) : OccursIn(doc, q.phrases[p])

\* the words of the phrase all occur in the text of the document
WordsOccur(doc, phrase) ==
    \A w \in 1..Len(SplitWS(phrase)) : OccursIn(doc, SplitWS(phrase)[w])

\* C17: matchesFilters returns true only for a document whose searchable text
\* contains every positive phrase of the query verbatim, letter case apart;
\* with no field filter and no negation it returns true exactly for those
\* documents, so a document with the words of a phrase apart is rejected.
C17_PhraseVerbatim ==
    fPc # "input" =>
        \A i \in 1..Len(fResults) :
            /\ fMatches[i] => AllPhrasesOccur(fResults[i], fQuery)
            /\ (fQuery.fields = EmptyFields /\ fQuery.negTerms = <<>>
                  /\ fQuery.negPhrases = <<>>)
                  => (fMatches[i] <=> AllPhrasesOccur(fResults[i], fQuery))

\* the first document has the words of the phrase apart and is rejected, the
\* second has the phrase in another letter case and is kept
C17_Witness ==
    /\ fPc = "applied"
    /\ Len(fQuery.phrases) = 1
    /\ fQuery.fields = EmptyFields
    /\ fQuery.negTerms = <<>>
    /\ fQuery.negPhrases = <<>>
    /\ Len(fResults) = 2
    /\ WordsOccur(fResults[1], fQuery.phrases[1])
    /\ ~OccursIn(fResults[1], fQuery.phrases[1])
    /\ IndexOf(DocText(fResults[2]), fQuery.phrases[1]) = 0
    /\ fMatches = <<FALSE, TRUE>>
    /\ fOut = <<fResults[2]>>

\* the parsed query of an empty input: no phrase, no field filter, no negation
IsEmptyQuery(q) ==
    /\ q.phrases = <<>>
    /\ \A f \in CanonFields : q.fields[f] = <<>>
    /\ q.negTerms = <<>>
    /\ q.negPhrases = <<>>
    /\ q.terms = <<>>
    /\ q.cleanQuery = <<>>

\* C20: with the empty parsed query matchesFilters is true for every
\* document, and applyFilters returns the results it was given, in the same
\* order.
C20_EmptyQueryKeepsAll ==
    IsEmptyQuery(fQuery) =>
        /\ fPc # "input" => \A i \in 1..Len(fResults) : fMatches[i]
        /\ fPc = "applied" => fOut = fResults

\* two different documents, the first without a year, both kept in order
C20_Witness ==
    /\ fPc = "applied"
    /\ IsEmptyQuery(fQuery)
    /\ Len(fResults) = 2
    /\ fResults[1] # fResults[2]
    /\ fResults[1].year = <<>>
    /\ fMatches = <<TRUE, TRUE>>
    /\ fOut = fResults

\* ------------------------------------------------ VectorSearch specification
\* the values of topK a caller passes: 0 for an omitted argument
TopKs == {0, 2, MaxTotalResults}

\* the query vectors given to searchByEmbedding
QueryVectors == { <<1, 0>>, <<0, 1>>, <<-1, 2>>, <<0, 0>>, <<1>> }

\* the page before loadSearchIndex calls loadEmbeddings: the Fuse index is
\* built or there is no search data, and VectorSearch is as constructed
VectorInit ==
    /\ fuse \in BOOLEAN
    /\ fuseRank \in [SearchableQueries -> IF fuse THEN Rankings ELSE {<<>>}]
    /\ isOpen = FALSE
    /\ inputValue = <<>>
    /\ timers = <<>>
    /\ debounceLive = FALSE
    /\ sinceKey = DebounceMs
    /\ pendingKeys = 0
    /\ currentResults = <<>>
    /\ display = "none"
    /\ isLoaded = FALSE
    /\ isLoading = FALSE
    /\ loadError = FALSE
    /\ embeddings = <<>>
    /\ lastSearch = NoSearch
    /\ VectorQuiet
    /\ ParserQuiet
    /\ CacheQuiet
    /\ FilterQuiet
    /\ SubmitQuiet

\* a call of VectorSearch.loadEmbeddings(), up to its return
LoadEmbeddingsCall ==
    /\ IF StartsFetch(isLoaded, isLoading)
       THEN /\ fetches < MaxFetches
            /\ isLoading' = TRUE
            /\ fetches' = fetches + 1
            /\ loadPromise' = "pending"
            /\ loadCall' = [returned |-> "_loadPromise", startedFetch |-> TRUE,
                            wasLoaded |-> isLoaded, wasLoading |-> isLoading]
       ELSE /\ loadCall' = [returned |-> IF isLoaded THEN "Promise.resolve(true)"
                                        ELSE "_loadPromise",
                           startedFetch |-> FALSE,
                           wasLoaded |-> isLoaded, wasLoading |-> isLoading]
            /\ UNCHANGED <<isLoading, fetches, loadPromise>>
    /\ UNCHANGED <<fuse, fuseRank, isOpen, inputValue, timers, debounceLive, sinceKey,
                   pendingKeys, currentResults, display, isLoaded, loadError,
                   embeddings, lastSearch, lastSettle, itemsShape, vsOut,
                   parserVars, cacheVars, filterVars, submitVars>>

\* a fetch of loadEmbeddings ends with p: the then callbacks, or the catch
\* callback, run
FetchSettles(p) ==
    /\ fetches > 0
    /\ fetches' = fetches - 1
    /\ lastSettle' = p.kind
    /\ IF ThenSucceeds(p)
       THEN /\ embeddings' = p.items
            /\ itemsShape' = p.shape
            /\ isLoaded' = TRUE
            /\ isLoading' = FALSE
            /\ loadPromise' = "true"
            /\ UNCHANGED loadError
       ELSE /\ loadError' = AfterCatch(p.kind).loadError
            /\ isLoading' = AfterCatch(p.kind).isLoading
            /\ loadPromise' = AfterCatch(p.kind).promise
            /\ UNCHANGED <<embeddings, itemsShape, isLoaded>>
    /\ UNCHANGED <<fuse, fuseRank, isOpen, inputValue, timers, debounceLive, sinceKey,
                   pendingKeys, currentResults, display, lastSearch, loadCall, vsOut,
                   parserVars, cacheVars, filterVars, submitVars>>

\* a call of VectorSearch.search(query, fuse, topK)
SearchCall(query, topK) ==
    /\ vsOut' = SearchOutcome(query, topK)
    /\ UNCHANGED <<uiVars, loadPromise, fetches, lastSettle, itemsShape, loadCall,
                   parserVars, cacheVars, filterVars, submitVars>>

\* a call of VectorSearch.searchByEmbedding(queryEmbedding, topK)
SearchByEmbeddingCall(vec, topK) ==
    /\ vsOut' = SearchByEmbeddingOutcome(vec, topK)
    /\ UNCHANGED <<uiVars, loadPromise, fetches, lastSettle, itemsShape, loadCall,
                   parserVars, cacheVars, filterVars, submitVars>>

VectorNext ==
    \/ LoadEmbeddingsCall
    \/ \E p \in Payloads : FetchSettles(p)
    \/ \E q \in SearchableQueries, k \in TopKs : SearchCall(q, k)
    \/ \E v \in QueryVectors, k \in TopKs : SearchByEmbeddingCall(v, k)

VectorSpec == VectorInit /\ [][VectorNext]_vars

\* ------------------------------------------------ claims on VectorSearch
FailureKinds == {"networkError", "notOk", "badJson", "nullJson"}

\* C21: the promise of loadEmbeddings is never rejected; when the fetch
\* fails, the response is not ok or the body cannot be parsed, the promise
\* resolves to false, isLoaded and isLoading are false and loadError is set.
C21_LoadNeverRejects ==
    /\ loadPromise \in {"null", "pending", "true", "false"}
    /\ (lastSettle \in FailureKinds /\ loadPromise # "pending") =>
          /\ loadPromise = "false"
          /\ ~isLoaded
          /\ ~isLoading
          /\ loadError
    /\ loadPromise = "false" => lastSettle \in FailureKinds

\* a load has ended with a body that is no JSON
C21_Witness ==
    /\ lastSettle = "badJson"
    /\ loadPromise = "false"
    /\ loadError
    /\ ~isLoaded
    /\ ~isLoading
    /\ fetches = 0

\* C28: at most one fetch of the embeddings file is in flight, and it is in
\* flight exactly while isLoading; a call of loadEmbeddings made during a
\* load returns the promise of that load and starts no fetch, a call made
\* after a successful load starts none either; isLoaded and isLoading are
\* never both true.
C28_SingleFetch ==
    /\ fetches <= 1
    /\ isLoading <=> fetches = 1
    /\ ~(isLoaded /\ isLoading)
    /\ loadCall.wasLoading =>
          ~loadCall.startedFetch /\ loadCall.returned = "_loadPromise"
    /\ loadCall.wasLoaded => ~loadCall.startedFetch
    /\ loadCall.startedFetch => ~loadCall.wasLoaded /\ ~loadCall.wasLoading

\* loadEmbeddings has been called during a load: one fetch is in flight
C28_Witness ==
    /\ loadCall.wasLoading
    /\ ~loadCall.startedFetch
    /\ loadCall.returned = "_loadPromise"
    /\ isLoading
    /\ fetches = 1
    /\ loadPromise = "pending"

\* C27: whenever isLoaded is true, embeddings is a list whose items all have
\* an embedding vector, and a call of VectorSearch.search on a loaded matcher
\* does not raise; a JSON payload without a well-formed items list leaves
\* the matcher not loaded.
C27_LoadedIsWellFormed ==
    /\ isLoaded => itemsShape = "list"
    /\ vsOut.op = "search" => vsOut.kind = "returns"
    /\ (lastSettle = "json" /\ itemsShape # "list") => ~isLoaded

\* the sum of coordinate d of the stored embeddings of the items ids
RECURSIVE SumCoord(_, _)
SumCoord(ids, d) ==
    IF ids = <<>> THEN 0 ELSE Embedding(Head(ids))[d] + SumCoord(Tail(ids), d)

\* the direction of the average of the stored embeddings: their sum
Direction(ids) == [d \in 1..Len(Embedding(ids[1])) |-> SumCoord(ids, d)]

\* the best lexical hits of the query, five at most, that have a stored
\* embedding
BestStoredHits(query) ==
    LET hits == FuseSearch(query)
        best == SubSeq(hits, 1, IF Len(hits) > 5 THEN 5 ELSE Len(hits))
        stored(i) == \E k \in 1..Len(embeddings) : embeddings[k] = i
    IN  SelectSeq(best, stored)

\* C22: on a loaded matcher with embeddings, the query vector of a search
\* is the average of the stored embeddings of the best lexical hits of the
\* query, five at most, and with no lexical hit the average of the first ten
\* items of the embeddings.
C22_ProxyEmbedding ==
    (vsOut.op = "search" /\ vsOut.kind = "returns" /\ vsOut.loaded /\ fuse
        /\ embeddings # <<>>) =>
        /\ FuseSearch(vsOut.query) = <<>> =>
              vsOut.queryEmbedding =
                  Direction(SubSeq(embeddings, 1,
                                   IF Len(embeddings) > 10 THEN 10 ELSE Len(embeddings)))
        /\ BestStoredHits(vsOut.query) # <<>> =>
              vsOut.queryEmbedding = Direction(BestStoredHits(vsOut.query))

\* a search for a query with more than five lexical hits, one of the best
\* five without a stored embedding
C22_Witness ==
    /\ vsOut.op = "search"
    /\ vsOut.kind = "returns"
    /\ vsOut.loaded
    /\ Len(FuseSearch(vsOut.query)) > 5
    /\ Len(BestStoredHits(vsOut.query)) = 4
    /\ Len(embeddings) > 10
    /\ vsOut.queryEmbedding = Direction(BestStoredHits(vsOut.query))
    /\ vsOut.queryEmbedding # Direction(SubSeq(embeddings, 1, 10))

\* the dot product of a and b over the coordinates both have
RECURSIVE DotUpTo(_, _, _)
DotUpTo(a, b, n) == IF n = 0 THEN 0 ELSE DotUpTo(a, b, n - 1) + a[n] * b[n]

Similarity(vec, i) ==
    DotUpTo(vec, Embedding(i),
            IF Len(vec) < Len(Embedding(i)) THEN Len(vec) ELSE Len(Embedding(i)))

\* the place of item i in the embeddings
CorpusPos(i) == CHOOSE k \in 1..Len(embeddings) : embeddings[k] = i

\* C23: searchByEmbedding returns at most topK items (20 when topK is
\* omitted), as many as the corpus allows, each with its dot product with
\* the query vector, in non-increasing order of it, items of equal
\* similarity in the order of the corpus, and no item left out is more
\* similar than one returned: the output is a function of the inputs.
C23_RankedByEmbedding ==
    (vsOut.op = "searchByEmbedding" /\ vsOut.loaded /\ itemsShape = "list") =>
        LET limit == IF vsOut.topK = 0 THEN 20 ELSE vsOut.topK
            n == Len(vsOut.items)
        IN  /\ vsOut.kind = "returns"
            /\ n <= limit
            /\ n = (IF Len(embeddings) < limit THEN Len(embeddings) ELSE limit)
            /\ \A k \in 1..n :
                  /\ \E j \in 1..Len(embeddings) : embeddings[j] = vsOut.items[k]
                  /\ vsOut.scores[k] = Similarity(vsOut.vec, vsOut.items[k])
            /\ \A k \in 1..(n - 1) :
                  \/ vsOut.scores[k] > vsOut.scores[k + 1]
                  \/ /\ vsOut.scores[k] = vsOut.scores[k + 1]
                     /\ CorpusPos(vsOut.items[k]) < CorpusPos(vsOut.items[k + 1])
            /\ \A j \in 1..Len(embeddings) :
                  (n > 0 /\ \A k \in 1..n : vsOut.items[k] # embeddings[j]) =>
                      Similarity(vsOut.vec, embeddings[j]) <= vsOut.scores[n]

\* a call that cuts the ranking to topK, with items of equal similarity and
\* items of different similarity among those returned
C23_Witness ==
    /\ vsOut.op = "searchByEmbedding"
    /\ vsOut.kind = "returns"
    /\ vsOut.loaded
    /\ vsOut.topK = MaxTotalResults
    /\ Len(vsOut.items) = MaxTotalResults
    /\ Len(embeddings) > MaxTotalResults
    /\ vsOut.items[1] # embeddings[1]
    /\ \E k \in 1..(Len(vsOut.items) - 1) : vsOut.scores[k] = vsOut.scores[k + 1]
    /\ \E k \in 1..(Len(vsOut.items) - 1) : vsOut.scores[k] > vsOut.scores[k + 1]

\* C24: on a loaded matcher with a non-empty list of embeddings and a
\* lexical index, VectorSearch.search returns min(topK, size of the corpus)
\* results for every query, a query without any lexical hit included, and
\* so never an empty ranking.
C24_AlwaysRanks ==
    (vsOut.op = "search" /\ vsOut.loaded /\ fuse /\ itemsShape = "list"
        /\ embeddings # <<>>) =>
        LET limit == IF vsOut.topK = 0 THEN 20 ELSE vsOut.topK
        IN  /\ vsOut.kind = "returns"
            /\ vsOut.items # <<>>
            /\ Len(vsOut.items) =
                  (IF Len(embeddings) < limit THEN Len(embeddings) ELSE limit)
            /\ \A k \in 1..Len(vsOut.items) :
                  \E j \in 1..Len(embeddings) : embeddings[j] = vsOut.items[k]

\* a search for a query without lexical hits on a corpus smaller than topK
\* returns the whole corpus
C24_Witness ==
    /\ vsOut.op = "search"
    /\ vsOut.kind = "returns"
    /\ vsOut.loaded
    /\ fuse
    /\ FuseSearch(vsOut.query) = <<>>
    /\ vsOut.topK = MaxTotalResults
    /\ Len(embeddings) = 3
    /\ Len(vsOut.items) = 3

\* ------------------------------------------------ claims on init
\* C29: a page issues at most one indexedDB.open request, whatever get,
\* set, delete and clear calls are made and however they interleave with
\* the open; after a failed open no request is issued again and every
\* operation resolves to a miss, null or false.
C29_OpensOnce ==
    /\ openRequests <= 1
    /\ dbState = "opening" => openRequests = 1
    /\ dbState = "ready" => openRequests = 1
    /\ (dbState = "failed" /\ cacheResult.op # "none") =>
          /\ ~cacheResult.ok
          /\ cacheResult.op = "get" => cacheResult.value = Absent

\* after a failed open a get of a key the store holds resolves to null
C29_Witness ==
    /\ dbState = "failed"
    /\ openRequests = 1
    /\ cacheResult.op = "get"
    /\ store[cacheResult.key] # Absent
    /\ cacheResult.value = Absent
    /\ ~cacheResult.ok

\* ------------------------------------------------ the submission worker
Respond(status) == lastResponse' = status

\* what becomes of a request once its body was read (await request.json()
\* or request.formData()): the read throws, validateSubmission refuses the
\* form, env.GITHUB_TOKEN is missing, or the entry goes to appendToJsonFile
BodyOutcomes == {"ok", "invalid", "throws", "notConfigured"}

\* what appendToJsonFile comes back with: success, a failure with its
\* status (409 for a duplicate, 500 for a failed GitHub call), or a throw
AppendOutcomes == {"success", "duplicate", "failure", "throws"}

SubmitInit ==
    /\ SubmitQuiet
    /\ ParserQuiet
    /\ UIQuiet
    /\ CacheQuiet
    /\ FilterQuiet
    /\ VectorQuiet

\* handleSubmit up to its first await: the origin check, isRateLimited
\* with its clean-up of the store, the content type
Receive(ip, originOk, contentTypeOk) ==
    /\ InFlightTotal < MaxInFlight
    /\ IF ~originOk
       THEN /\ Respond(403)
            /\ UNCHANGED <<rateLimitStore, inFlight>>
       ELSE /\ rateLimitStore' = CleanStore(rateLimitStore, workerNow)
            /\ IF isRateLimited(rateLimitStore, ip, workerNow)
               THEN /\ Respond(429)
                    /\ UNCHANGED inFlight
               ELSE IF ~contentTypeOk
               THEN /\ Respond(400)
                    /\ UNCHANGED inFlight
               ELSE /\ inFlight' = [inFlight EXCEPT ![ip].parsing = @ + 1]
                    /\ UNCHANGED lastResponse
    /\ UNCHANGED <<workerNow, accepted, parserVars, uiVars, cacheVars, filterVars, vectorVars>>

\* handleSubmit from the body read to its second await
BodyRead(ip, outcome) ==
    /\ inFlight[ip].parsing > 0
    /\ IF outcome = "ok"
       THEN /\ inFlight' = [inFlight EXCEPT ![ip].parsing = @ - 1, ![ip].appending = @ + 1]
            /\ UNCHANGED lastResponse
       ELSE /\ inFlight' = [inFlight EXCEPT ![ip].parsing = @ - 1]
            /\ Respond(IF outcome = "invalid" THEN 400 ELSE 500)
    /\ UNCHANGED <<rateLimitStore, workerNow, accepted, parserVars, uiVars, cacheVars, filterVars, vectorVars>>

\* handleSubmit after appendToJsonFile: trackSubmission and the response
AppendDone(ip, outcome) ==
    /\ inFlight[ip].appending > 0
    /\ inFlight' = [inFlight EXCEPT ![ip].appending = @ - 1]
    /\ IF outcome = "success"
       THEN /\ rateLimitStore' = trackSubmission(rateLimitStore, ip, workerNow)
            /\ accepted' = [accepted EXCEPT ![ip] = Append(@, workerNow)]
            /\ Respond(200)
       ELSE /\ Respond(IF outcome = "duplicate" THEN 409 ELSE 500)
            /\ UNCHANGED <<rateLimitStore, accepted>>
    /\ UNCHANGED <<workerNow, parserVars, uiVars, cacheVars, filterVars, vectorVars>>

\* Date.now() moves on; the responses older than an hour are forgotten
AdvanceWorker ==
    /\ workerNow < MaxNow
    /\ workerNow' = workerNow + 1
    /\ accepted' = [ip \in ClientIPs |-> RecentOf(accepted[ip], workerNow + 1)]
    /\ UNCHANGED <<rateLimitStore, inFlight, lastResponse, parserVars, uiVars, cacheVars, filterVars, vectorVars>>

SubmitNext ==
    \/ \E ip \in ClientIPs, originOk \in BOOLEAN, contentTypeOk \in BOOLEAN :
          Receive(ip, originOk, contentTypeOk)
    \/ \E ip \in ClientIPs, outcome \in BodyOutcomes : BodyRead(ip, outcome)
    \/ \E ip \in ClientIPs, outcome \in AppendOutcomes : AppendDone(ip, outcome)
    \/ AdvanceWorker

SubmitSpec == SubmitInit /\ [][SubmitNext]_vars

\* ------------------------------------------------ claims on the worker
\* the instants of the successful responses to ip within the last hour
AcceptedRecently(ip) == RecentOf(accepted[ip], workerNow)

\* C30: the worker sends at most MAX_SUBMISSIONS_PER_HOUR successful
\* responses to one client IP within an hour, however the requests of that
\* IP interleave.
C30_RateLimit ==
    \A ip \in ClientIPs : Len(AcceptedRecently(ip)) <= MAX_SUBMISSIONS_PER_HOUR

====
